---- MODULE Spec2Model ----
(***************************************************************************)
(* flinbein/stateful-rpc: one link between a Source endpoint               *)
(* (RPCSource.start, RPCSourceChannel) and a Channel endpoint              *)
(* (ChannelManager, Channel).  Channel ids are the numbers the test        *)
(* harness' getNextChannelId produces; states, reasons and call results    *)
(* are drawn from small sets.                                              *)
(***************************************************************************)
EXTENDS Integers, Sequences, FiniteSets, TLC

\* ------------------------------------------------------------------ bounds
MaxChannelId == 3

Ids == 1..MaxChannelId
Sources == {"root", "inner", "store"}
States == {"a", "b"}
Reasons == {"r1", "r2"}
NoReason == "undefined"

\* ---------------------------------------------------------- wire contract
CLIENT_ACTION_CALL == 0
CLIENT_ACTION_CLOSE == 1
CLIENT_ACTION_CREATE == 2
CLIENT_ACTION_NOTIFY == 3

REMOTE_ACTION_RESPONSE_OK == 0
REMOTE_ACTION_CLOSE == 1
REMOTE_ACTION_STATE == 2
REMOTE_ACTION_RESPONSE_ERROR == 3
REMOTE_ACTION_EVENT == 4

\* A Source-to-client message [ids[], action, ...payload].  arr is FALSE for
\* the one message the Source endpoint sends with a bare id in first place.
\* op is history: the number of the server-side operation that caused the
\* message (0 for a message answering the client).
RemoteMessage(ids, action, key, val) ==
    [arr |-> TRUE, ids |-> ids, action |-> action, key |-> key, val |-> val, op |-> 0]

\* A client-to-Source message [channelId, action, ...payload]; the initialize
\* message [channelId] has length 1.
ClientMessage(channelId, action, key, val) ==
    [len |-> 5, channelId |-> channelId, action |-> action, key |-> key, val |-> val,
     path |-> <<>>]

ClientMessageInitialize(channelId) ==
    [len |-> 1, channelId |-> channelId, action |-> -1, key |-> 0, val |-> "",
     path |-> <<>>]

\* ------------------------------------------------------------------ state
VARIABLES
    srcState,        \* RPCSource.#state
    disposed,        \* RPCSource.#disposed
    disposeReason,   \* RPCSource.#disposeReason
    listeners,       \* RPCSource.#innerEvents: the Source Channels whose
                     \* message/state/dispose listeners are attached, in order
    sch,             \* the RPCSourceChannel objects ever constructed
    channels,        \* RPCSource.start: channels (Map, insertion order)
    subscribers,     \* RPCSource.start: subscribers (Map Source -> ids)
    maxChannelsPerClient, \* RPCSource.start option
    tasks,           \* handlers of CALL / CREATE awaiting their result
    srcOpen,         \* the Source endpoint's onClose has not fired
    toSource,        \* messages in flight, client to Source
    toClient,        \* messages in flight, Source to client
    cch,             \* the Channel objects ever constructed
    cchannels,       \* ChannelManager.channels
    cliOpen,         \* the Channel endpoint's onClose has not fired
    linkReason,      \* the reason of the link's terminal close
    firstSent,       \* history: per channel id, the first message addressed to it
                     \* (any) and the first STATE or EVENT addressed to it (data)
    lim,             \* the bounds of the run: objects, calls, operations
    used,            \* operations performed so far, counted against lim, and
                     \* the error the last server-side operation threw
    timer            \* ChannelManager: the connectionTimeout option's pending
                     \* timer ("timer") or abort listener ("signal")

vars == <<srcState, disposed, disposeReason, listeners, sch, channels, subscribers,
          maxChannelsPerClient, tasks, srcOpen, toSource, toClient, cch, cchannels,
          cliOpen, linkReason, firstSent, lim, used, timer>>

srcVars == <<srcState, disposed, disposeReason, listeners, sch, channels, subscribers, toClient, firstSent>>
cliVars == <<cch, cchannels, timer>>

\* RPCSource.#autoDispose: set by the construct-a-class path of the default
\* handler; "store" is the Source built by that path.
autoDispose == [s \in Sources |-> s = "store"]

NoEntry == [has |-> FALSE, list |-> <<>>]

\* ------------------------------------------------------ sequence helpers
InSeq(x, seq) == \E i \in 1..Len(seq) : seq[i] = x

\* Array.prototype.indexOf, 1-based; 0 stands for JavaScript's -1
IndexOf(seq, x) ==
    IF InSeq(x, seq) THEN CHOOSE i \in 1..Len(seq) : seq[i] = x /\ \A j \in 1..(i-1) : seq[j] # x
    ELSE 0

RemoveAt(seq, i) == SubSeq(seq, 1, i-1) \o SubSeq(seq, i+1, Len(seq))

\* list.splice(list.indexOf(x), 1): index -1 removes the last element
SpliceIndexOf(seq, x) ==
    IF seq = <<>> THEN seq
    ELSE IF IndexOf(seq, x) = 0 THEN RemoveAt(seq, Len(seq))
    ELSE RemoveAt(seq, IndexOf(seq, x))

\* Map.get on the channel registry: the object registered under id, or 0
ChannelsGet(chs, id) ==
    IF \E i \in 1..Len(chs) : chs[i].id = id
    THEN chs[CHOOSE i \in 1..Len(chs) : chs[i].id = id].obj
    ELSE 0

\* Map.clear in place of Map.delete
ChannelsClear(chs, id) == <<>>

\* Map.delete on the channel registry
ChannelsDelete(chs, id) == SelectSeq(chs, LAMBDA e : e.id # id)

\* ---------------------------------------------- Source side, as functions
\* of the Source-side state st = [sch, channels, subscribers, listeners,
\* srcState, disposed, disposeReason, out]

SrcSide ==
    [sch |-> sch, channels |-> channels, subscribers |-> subscribers,
     listeners |-> listeners, srcState |-> srcState, disposed |-> disposed,
     disposeReason |-> disposeReason, out |-> toClient, firstSent |-> firstSent,
     op |-> 0, open |-> srcOpen,
     \* the adapter's send function throws (inside a try block of the caller:
     \* the message is lost and the catch block runs)
     fails |-> FALSE]

SetSrcSide(st) ==
    /\ sch' = st.sch
    /\ channels' = st.channels
    /\ subscribers' = st.subscribers
    /\ listeners' = st.listeners
    /\ srcState' = st.srcState
    /\ disposed' = st.disposed
    /\ disposeReason' = st.disposeReason
    /\ toClient' = st.out
    /\ firstSent' = st.firstSent

NoMessage == [action |-> -1, val |-> ""]

\* History: the first message, and the first STATE or EVENT message, whose
\* destination list contains each channel id, and the number of CLOSE
\* messages sent to the id
RecordFirst(first, m) ==
    [id \in Ids |->
        IF m.arr /\ InSeq(id, m.ids)
        THEN [any |-> IF first[id].any = NoMessage
                      THEN [action |-> m.action, val |-> m.val] ELSE first[id].any,
              data |-> IF /\ first[id].data = NoMessage
                          /\ m.action \in {REMOTE_ACTION_STATE, REMOTE_ACTION_EVENT}
                       THEN [action |-> m.action, val |-> m.val] ELSE first[id].data,
              closes |-> IF m.action = REMOTE_ACTION_CLOSE
                         THEN first[id].closes + 1 ELSE first[id].closes]
        ELSE first[id]]

\* a transport that lets a later message overtake the earlier ones
EnqueueOvertaking(out, m) == <<m>> \o out

\* the transport's send function: messages leave in the order of the calls
Enqueue(out, m) == Append(out, m)

sendMessage_connection(st, m) ==
    IF st.fails THEN st
    ELSE [st EXCEPT !.out = Enqueue(@, [m EXCEPT !.op = st.op]),
                    !.firstSent = RecordFirst(@, m)]

\* RPCSource.start: the variable sendMessage, which onClose makes inert
sendMessage(st, m) == IF st.open THEN sendMessage_connection(st, m) ELSE st

\* this.#initData.sendMessage: the value of sendMessage when obj was
\* initialized: the adapter's send function, the no-op of onClose (inert), or
\* the queueing function of start (queued), whose sendMessageQueue is null
\* once start has returned, so that its push throws
initDataSendMessage(st, obj, m) ==
    IF st.sch[obj].inert \/ st.sch[obj].queued THEN st ELSE sendMessage_connection(st, m)

NewSourceChannel(source) ==
    [source |-> source, closed |-> FALSE, closeReason |-> NoReason,
     ready |-> FALSE, channelId |-> 0, inert |-> FALSE, queued |-> FALSE,
     \* history: was initialized, the state sent then, state changes seen since
     inited |-> FALSE, initState |-> "", changes |-> 0,
     \* history: "close" events fired, CLOSE messages sent by close(),
     \* "error" events fired
     closeEvents |-> 0, closesSent |-> 0, errorEvents |-> 0]

\* RPCSourceChannel.#cleanup: detach this object's three listeners
cleanup(st, obj) ==
    IF st.sch[obj].channelId = 0 THEN st
    ELSE [st EXCEPT !.listeners[st.sch[obj].source] = SelectSeq(@, LAMBDA a : a # obj)]

\* RPCSourceChannel.#onSourceDispose of the object a whose listener is attached
onSourceDispose(st, a, reason) ==
    LET s == st.sch[a].source
        sub == st.subscribers[s]
        st1 == IF sub.has
               THEN [initDataSendMessage(st, a, RemoteMessage(sub.list, REMOTE_ACTION_CLOSE, 0, reason))
                        EXCEPT !.channels = SelectSeq(@, LAMBDA e : ~InSeq(e.id, sub.list))]
               ELSE st
        st2 == [st1 EXCEPT !.subscribers[s] = NoEntry]
    IN cleanup(st2, a)

\* RPCSourceChannel.#onSourceStateChanged
onSourceStateChanged(st, a, state) ==
    LET sub == st.subscribers[st.sch[a].source]
    IN IF sub.has THEN initDataSendMessage(st, a, RemoteMessage(sub.list, REMOTE_ACTION_STATE, 0, state))
       ELSE st

\* RPCSourceChannel.#onSourceMessage
onSourceMessage(st, a, ev) ==
    LET sub == st.subscribers[st.sch[a].source]
    IN IF sub.has THEN initDataSendMessage(st, a, RemoteMessage(sub.list, REMOTE_ACTION_EVENT, 0, ev))
       ELSE st

\* EventEmitter.emitWithTry over the listeners attached when the emit starts
RECURSIVE EmitDispose(_, _, _)
EmitDispose(st, ls, reason) ==
    IF ls = <<>> THEN st
    ELSE EmitDispose(onSourceDispose(st, Head(ls), reason), Tail(ls), reason)

RECURSIVE EmitState(_, _, _)
EmitState(st, ls, state) ==
    IF ls = <<>> THEN st
    ELSE EmitState(onSourceStateChanged(st, Head(ls), state), Tail(ls), state)

RECURSIVE EmitMessage(_, _, _)
EmitMessage(st, ls, ev) ==
    IF ls = <<>> THEN st
    ELSE EmitMessage(onSourceMessage(st, Head(ls), ev), Tail(ls), ev)

\* dispose without if (this.#disposed) return
disposeAgain(st, s, reason) ==
    EmitDispose([st EXCEPT !.disposed[s] = TRUE, !.disposeReason[s] = reason],
                st.listeners[s], reason)

\* RPCSource.dispose
dispose(st, s, reason) ==
    IF st.disposed[s] THEN st
    ELSE EmitDispose([st EXCEPT !.disposed[s] = TRUE, !.disposeReason[s] = reason],
                     st.listeners[s], reason)

\* RPCSource.setState (the caller has checked disposed)
setState(st, s, state) ==
    IF st.srcState[s] = state THEN st
    ELSE EmitState([st EXCEPT !.srcState[s] = state], st.listeners[s], state)

\* RPCSource.emit (the caller has checked disposed)
emit(st, s, ev) == EmitMessage(st, st.listeners[s], ev)

\* close without if (getAutoDispose()) this.#source.dispose(reason)
closeWithoutDispose(st, obj, reason) ==
    IF st.sch[obj].closed THEN st
    ELSE
    LET c == st.sch[obj]
        s == c.source
        st0 == [st EXCEPT !.sch[obj].closeReason = reason,
                          !.sch[obj].closed = TRUE,
                          !.sch[obj].ready = FALSE,
                          !.sch[obj].closeEvents = @ + 1,
                          !.sch[obj].errorEvents = IF c.ready THEN @ + 1 ELSE @]
        sends == c.channelId # 0 /\ ~c.inert /\ ~c.queued
                 /\ (c.ready => ChannelsGet(st.channels, c.channelId) # 0)
        st1 == IF sends THEN [st0 EXCEPT !.sch[obj].closesSent = @ + 1] ELSE st0
    IN IF ~c.ready
       THEN IF c.channelId # 0
            THEN initDataSendMessage(st1, obj, RemoteMessage(<<c.channelId>>, REMOTE_ACTION_CLOSE, 0, reason))
            ELSE st1
       ELSE
       LET has == st1.subscribers[s].has
           list == SpliceIndexOf(st1.subscribers[s].list, c.channelId)
           st2 == IF has THEN [st1 EXCEPT !.subscribers[s].list = list] ELSE st1
           st3 == IF Len(list) = 0 THEN cleanup(st2, obj) ELSE st2
           deleted == ChannelsGet(st3.channels, c.channelId) # 0
           st4 == [st3 EXCEPT !.channels = ChannelsDelete(@, c.channelId)]
       IN IF deleted
          THEN initDataSendMessage(st4, obj, RemoteMessage(<<c.channelId>>, REMOTE_ACTION_CLOSE, 0, reason))
          ELSE st4

\* RPCSourceChannel.close
close(st, obj, reason) ==
    IF st.sch[obj].closed THEN st
    ELSE
    LET c == st.sch[obj]
        s == c.source
        st0 == [st EXCEPT !.sch[obj].closeReason = reason,
                          !.sch[obj].closed = TRUE,
                          !.sch[obj].ready = FALSE,
                          !.sch[obj].closeEvents = @ + 1,
                          !.sch[obj].errorEvents = IF c.ready THEN @ + 1 ELSE @]
        sends == c.channelId # 0 /\ ~c.inert /\ ~c.queued
                 /\ (c.ready => ChannelsGet(st.channels, c.channelId) # 0)
        st1 == IF sends THEN [st0 EXCEPT !.sch[obj].closesSent = @ + 1] ELSE st0
    IN IF ~c.ready
       THEN IF c.channelId # 0
            THEN initDataSendMessage(st1, obj, RemoteMessage(<<c.channelId>>, REMOTE_ACTION_CLOSE, 0, reason))
            ELSE st1
       ELSE
       LET has == st1.subscribers[s].has
           list == SpliceIndexOf(st1.subscribers[s].list, c.channelId)
           st2 == IF has THEN [st1 EXCEPT !.subscribers[s].list = list] ELSE st1
           st3 == IF Len(list) = 0 THEN cleanup(st2, obj) ELSE st2
           deleted == ChannelsGet(st3.channels, c.channelId) # 0
           st4 == [st3 EXCEPT !.channels = ChannelsDelete(@, c.channelId)]
           st5 == IF deleted
                  THEN initDataSendMessage(st4, obj, RemoteMessage(<<c.channelId>>, REMOTE_ACTION_CLOSE, 0, reason))
                  ELSE st4
       IN IF autoDispose[s] THEN dispose(st5, s, reason) ELSE st5

\* #init without if (rpcSource.disposed) this.close(disposeReason)
initIgnoringDisposed(st, obj, channelId) ==
    LET s == st.sch[obj].source
        st1 == [st EXCEPT !.sch[obj].channelId = channelId, !.sch[obj].inert = ~st.open]
    IN IF st1.sch[obj].closed THEN st1
       ELSE
       LET st2 == IF st1.subscribers[s].has
                  THEN [st1 EXCEPT !.subscribers[s].list = Append(@, channelId)]
                  ELSE [st1 EXCEPT !.subscribers[s] = [has |-> TRUE, list |-> <<channelId>>],
                                   !.listeners[s] = Append(@, obj)]
           st3 == [st2 EXCEPT !.channels = Append(@, [id |-> channelId, obj |-> obj])]
           st4 == initDataSendMessage(st3, obj, RemoteMessage(<<channelId>>, REMOTE_ACTION_STATE, 0, st3.srcState[s]))
       IN [st4 EXCEPT !.sch[obj].ready = TRUE,
                      !.sch[obj].inited = TRUE,
                      !.sch[obj].initState = st3.srcState[s]]

\* #init without its sendMessage([channelId], STATE, state)
initSilently(st, obj, channelId) ==
    LET s == st.sch[obj].source
        st0 == [st EXCEPT !.sch[obj].channelId = channelId, !.sch[obj].inert = ~st.open]
        st1 == IF st0.disposed[s] THEN close(st0, obj, st0.disposeReason[s]) ELSE st0
    IN IF st1.sch[obj].closed THEN st1
       ELSE
       LET st2 == IF st1.subscribers[s].has
                  THEN [st1 EXCEPT !.subscribers[s].list = Append(@, channelId)]
                  ELSE [st1 EXCEPT !.subscribers[s] = [has |-> TRUE, list |-> <<channelId>>],
                                   !.listeners[s] = Append(@, obj)]
           st3 == [st2 EXCEPT !.channels = Append(@, [id |-> channelId, obj |-> obj])]
       IN [st3 EXCEPT !.sch[obj].ready = TRUE,
                      !.sch[obj].inited = TRUE,
                      !.sch[obj].initState = st3.srcState[s]]

\* RPCSourceChannel.#init: a closed channel is the method's result false
init(st, obj, channelId) ==
    LET s == st.sch[obj].source
        st0 == [st EXCEPT !.sch[obj].channelId = channelId, !.sch[obj].inert = ~st.open]
        st1 == IF st0.disposed[s] THEN close(st0, obj, st0.disposeReason[s]) ELSE st0
    IN IF st1.sch[obj].closed THEN st1
       ELSE
       LET st2 == IF st1.subscribers[s].has
                  THEN [st1 EXCEPT !.subscribers[s].list = Append(@, channelId)]
                  ELSE [st1 EXCEPT !.subscribers[s] = [has |-> TRUE, list |-> <<channelId>>],
                                   !.listeners[s] = Append(@, obj)]
           st3 == [st2 EXCEPT !.channels = Append(@, [id |-> channelId, obj |-> obj])]
           st4 == initDataSendMessage(st3, obj, RemoteMessage(<<channelId>>, REMOTE_ACTION_STATE, 0, st3.srcState[s]))
       IN [st4 EXCEPT !.sch[obj].ready = TRUE,
                      !.sch[obj].inited = TRUE,
                      !.sch[obj].initState = st3.srcState[s]]

\* #initChannel without the test of channels.size
initChannelNoLimit(st, obj, channelId, max) ==
    IF st.sch[obj].ready
    THEN sendMessage(st, RemoteMessage(<<channelId>>, REMOTE_ACTION_CLOSE, 0, "channel is already initialized"))
    ELSE IF ChannelsGet(st.channels, channelId) # 0
    THEN close(st, ChannelsGet(st.channels, channelId), "channel id conflict")
    ELSE init(st, obj, channelId)

\* #initChannel without the return after alreadyExistsChannel.close(...)
initChannelNoReturn(st, obj, channelId, max) ==
    IF Len(st.channels) >= max
    THEN sendMessage(st, RemoteMessage(<<channelId>>, REMOTE_ACTION_CLOSE, 0, "channels limit"))
    ELSE IF st.sch[obj].ready
    THEN sendMessage(st, RemoteMessage(<<channelId>>, REMOTE_ACTION_CLOSE, 0, "channel is already initialized"))
    ELSE IF ChannelsGet(st.channels, channelId) # 0
    THEN init(close(st, ChannelsGet(st.channels, channelId), "channel id conflict"), obj, channelId)
    ELSE init(st, obj, channelId)

\* RPCSource.#initChannel together with the catch of its two callers:
\* a thrown error is sent as CLOSE to [channelId]
initChannel(st, obj, channelId, max) ==
    IF Len(st.channels) >= max
    THEN sendMessage(st, RemoteMessage(<<channelId>>, REMOTE_ACTION_CLOSE, 0, "channels limit"))
    ELSE IF st.sch[obj].ready
    THEN sendMessage(st, RemoteMessage(<<channelId>>, REMOTE_ACTION_CLOSE, 0, "channel is already initialized"))
    ELSE IF ChannelsGet(st.channels, channelId) # 0
    THEN close(st, ChannelsGet(st.channels, channelId), "channel id conflict")
    ELSE init(st, obj, channelId)

\* #init called while RPCSource.start is inside connection(...): sendMessage
\* is the queueing function, the STATE is pushed to sendMessageQueue and
\* handed to the adapter's send function when connection has returned
initDuringStart(st, obj, channelId) ==
    LET s == st.sch[obj].source
        st0 == [st EXCEPT !.sch[obj].channelId = channelId, !.sch[obj].queued = TRUE]
        st2 == [st0 EXCEPT !.subscribers[s] = [has |-> TRUE, list |-> <<channelId>>],
                           !.listeners[s] = Append(@, obj)]
        st3 == [st2 EXCEPT !.channels = Append(@, [id |-> channelId, obj |-> obj])]
        st4 == sendMessage_connection(st3, RemoteMessage(<<channelId>>, REMOTE_ACTION_STATE, 0, st3.srcState[s]))
    IN [st4 EXCEPT !.sch[obj].ready = TRUE,
                   !.sch[obj].inited = TRUE,
                   !.sch[obj].initState = st3.srcState[s]]

\* #init over a transport that delivers synchronously (the in-process
\* connection of RPCChannel): inside sendMessage([channelId], STATE, state)
\* the peer's "ready" listener closes its channel, whose CLOSE message is
\* dispatched by onMessageClose before sendMessage returns
initInProcess(st, obj, channelId, reason) ==
    LET s == st.sch[obj].source
        st0 == [st EXCEPT !.sch[obj].channelId = channelId, !.sch[obj].inert = ~st.open]
        st1 == IF st0.disposed[s] THEN close(st0, obj, st0.disposeReason[s]) ELSE st0
    IN IF st1.sch[obj].closed THEN st1
       ELSE
       LET st2 == IF st1.subscribers[s].has
                  THEN [st1 EXCEPT !.subscribers[s].list = Append(@, channelId)]
                  ELSE [st1 EXCEPT !.subscribers[s] = [has |-> TRUE, list |-> <<channelId>>],
                                   !.listeners[s] = Append(@, obj)]
           st3 == [st2 EXCEPT !.channels = Append(@, [id |-> channelId, obj |-> obj])]
           st4 == initDataSendMessage(st3, obj, RemoteMessage(<<channelId>>, REMOTE_ACTION_STATE, 0, st3.srcState[s]))
           \* onMessageClose, re-entered
           st5 == close([st4 EXCEPT !.channels = ChannelsDelete(@, channelId)], obj, reason)
       IN [st5 EXCEPT !.sch[obj].ready = TRUE,
                      !.sch[obj].inited = TRUE,
                      !.sch[obj].initState = st3.srcState[s]]

\* RPCSource.#initChannel over the in-process connection
initChannelInProcess(st, obj, channelId, max, reason) ==
    IF Len(st.channels) >= max
    THEN sendMessage(st, RemoteMessage(<<channelId>>, REMOTE_ACTION_CLOSE, 0, "channels limit"))
    ELSE IF st.sch[obj].ready
    THEN sendMessage(st, RemoteMessage(<<channelId>>, REMOTE_ACTION_CLOSE, 0, "channel is already initialized"))
    ELSE IF ChannelsGet(st.channels, channelId) # 0
    THEN close(st, ChannelsGet(st.channels, channelId), "channel id conflict")
    ELSE initInProcess(st, obj, channelId, reason)

\* RPCSourceChannel.close when the adapter's send function throws: the
\* result is the state the call leaves and whether the error escapes it.
\* The retry of the never-ready branch and the send of the ready branch
\* are outside any try block.
closeSendThrows(st, obj, reason) ==
    IF st.sch[obj].closed THEN [st |-> st, thrown |-> FALSE]
    ELSE
    LET c == st.sch[obj]
        s == c.source
        st0 == [st EXCEPT !.sch[obj].closeReason = reason,
                          !.sch[obj].closed = TRUE,
                          !.sch[obj].ready = FALSE,
                          !.sch[obj].closeEvents = @ + 1,
                          !.sch[obj].errorEvents = IF c.ready THEN @ + 1 ELSE @]
    IN IF ~c.ready
       THEN [st |-> st0, thrown |-> c.channelId # 0 /\ ~c.inert]
       ELSE
       LET has == st0.subscribers[s].has
           list == SpliceIndexOf(st0.subscribers[s].list, c.channelId)
           st2 == IF has THEN [st0 EXCEPT !.subscribers[s].list = list] ELSE st0
           st3 == IF Len(list) = 0 THEN cleanup(st2, obj) ELSE st2
           deleted == ChannelsGet(st3.channels, c.channelId) # 0
           st4 == [st3 EXCEPT !.channels = ChannelsDelete(@, c.channelId)]
       IN IF deleted /\ ~c.inert
          THEN [st |-> st4, thrown |-> TRUE]
          ELSE [st |-> IF autoDispose[s] THEN dispose(st4, s, reason) ELSE st4,
                thrown |-> FALSE]

\* closeAll when the adapter's send function throws: the for...of loop ends
\* at the first close() that throws
RECURSIVE closeAllSendThrows(_, _, _)
closeAllSendThrows(st, chs, reason) ==
    IF chs = <<>> THEN [st |-> st, thrown |-> FALSE]
    ELSE LET e == Head(chs)
         IN IF ChannelsGet(st.channels, e.id) = e.obj
            THEN LET r == closeSendThrows(st, e.obj, reason)
                 IN IF r.thrown THEN r ELSE closeAllSendThrows(r.st, Tail(chs), reason)
            ELSE closeAllSendThrows(st, Tail(chs), reason)

\* ------------------------------------------------------ default handler
\* The values path resolution meets.  "methods" is the record the root
\* Source is built from, { ping() {}, math: { floor() {} }, empty: null,
\* version: 1 }; "this" is an instance of a class extending
\* RPCSource.with("$") with the fields $ping and $math and the prototype
\* method $setName; "fn" is any function, "proto" is Object.prototype.
dangerPropNames ==
    {"__proto__", "__defineGetter__", "__defineSetter__", "__lookupGetter__", "__lookupSetter__"}

\* RPCSource constructor: the prefix the Source's handler is built with
prefix == [s \in Sources |-> IF s = "inner" THEN "$" ELSE ""]

methods == [s \in Sources |-> IF s = "inner" THEN "this" ELSE "methods"]

\* typeof target
TypeOf(target) ==
    CASE target \in {"methods", "math", "this", "proto", "null"} -> "object"
      [] target = "fn" -> "function"
      [] target = "num" -> "number"
      [] OTHER -> "undefined"

\* Object.keys(target): the own enumerable keys
ObjectKeys(target) ==
    CASE target = "methods" -> {"ping", "math", "empty", "version"}
      [] target = "math" -> {"floor"}
      [] target = "this" -> {"$ping", "$math"}
      [] OTHER -> {}

\* target[step], own or inherited
GetProp(target, step) ==
    IF step = "constructor" THEN "fn"
    ELSE IF step = "__proto__" THEN "proto"
    ELSE CASE target = "methods" /\ step = "ping" -> "fn"
           [] target = "methods" /\ step = "math" -> "math"
           [] target = "methods" /\ step = "empty" -> "null"
           [] target = "methods" /\ step = "version" -> "num"
           [] target = "math" /\ step = "floor" -> "fn"
           [] target = "this" /\ step = "$ping" -> "fn"
           [] target = "this" /\ step = "$math" -> "math"
           [] target = "this" /\ step = "$setName" -> "fn"
           [] OTHER -> "undefined"

\* RPCSource.createDefaultHandler: the handler for a CALL (newChannel is
\* false).  The result is "result" when the function the path leads to is
\* applied, "wrong path" when one of the handler's own errors is thrown, and
\* "TypeError" when Object.keys(null) throws
RECURSIVE defaultHandler(_, _, _, _)
defaultHandler(target, pre, path, i) ==
    IF i > Len(path)
    THEN IF TypeOf(target) = "function" THEN "result" ELSE "wrong path"
    ELSE LET step == IF i = 1 THEN pre \o path[i] ELSE path[i]
         IN IF step \in dangerPropNames THEN "wrong path"
            ELSE IF TypeOf(target) # "object" THEN "wrong path"
            ELSE IF (i > 1 \/ pre = "") /\ target = "null" THEN "TypeError"
            ELSE IF (i > 1 \/ pre = "") /\ step \notin ObjectKeys(target) THEN "wrong path"
            ELSE defaultHandler(GetProp(target, step), pre, path, i + 1)

\* ------------------------------------------------------------ transport
\* The adapter stops delivering after the peer's terminal close: a message
\* handed to it for a closed peer is lost.
SendToSource(m) == toSource' = IF srcOpen THEN Append(toSource, m) ELSE toSource

Deliverable(st) == [st EXCEPT !.out = IF cliOpen THEN @ ELSE <<>>]

NewChannel(channelId) ==
    [channelId |-> channelId, state |-> "undefined", ready |-> FALSE, closed |-> FALSE,
     currentCallId |-> 0, calls |-> <<>>,
     \* history: close reason, events fired, operations observed
     closeReason |-> NoReason, events |-> <<>>, seen |-> <<>>, unmatched |-> 0,
     \* history: the reason the "error" event carried, CLOSE messages sent
     errorReason |-> NoReason, closesSent |-> 0,
     \* events (EventEmitter): the listeners registered with on(), each with
     \* the proxy path and event name it was registered under and its key;
     \* history: the listeners invoked, with the message that invoked them
     handlers |-> {}, invoked |-> {}]

\* maxChannelsPerClient = Infinity, the default
Infinity == MaxChannelId + 1

\* The state after RPCSource.start(root) and new RPCChannel(connection):
\* the root channel is registered and its initialize message is in flight.
InitWith(limits, maxima) ==
    /\ lim = limits
    /\ used = [srv |-> 0, notify |-> 0, peer |-> 0, thrown |-> ""]
    /\ srcState = [s \in Sources |-> "a"]
    /\ disposed = [s \in Sources |-> FALSE]
    /\ disposeReason = [s \in Sources |-> NoReason]
    /\ listeners = [s \in Sources |-> <<>>]
    /\ sch = <<>>
    /\ channels = <<>>
    /\ subscribers = [s \in Sources |-> NoEntry]
    /\ maxChannelsPerClient \in maxima
    /\ tasks = <<>>
    /\ srcOpen = TRUE
    /\ toSource = <<ClientMessageInitialize(1)>>
    /\ toClient = <<>>
    /\ cch = <<NewChannel(1)>>
    /\ cchannels = [id \in Ids |-> IF id = 1 THEN 1 ELSE 0]
    /\ cliOpen = TRUE
    /\ linkReason = NoReason
    /\ firstSent = [id \in Ids |-> [any |-> NoMessage, data |-> NoMessage, closes |-> 0]]

\* a further RPCChannel on the same link (the harness' createChannel) sends
\* its initialize message
PeerInitialize(channelId) ==
    /\ cliOpen /\ srcOpen
    /\ used.peer < lim.peer
    /\ used' = [used EXCEPT !.peer = @ + 1]
    /\ SendToSource(ClientMessageInitialize(channelId))
    /\ UNCHANGED <<srcVars, maxChannelsPerClient, tasks, srcOpen, cch, cchannels, cliOpen, linkReason, lim, timer>>

\* a channel of the further RPCChannel is constructed under newId
\* (proxyConstruct), called (proxyApply) or closed (close); that peer's
\* registry is not tracked, so it may name any id
PeerCreate(channelId, newId) ==
    /\ cliOpen /\ srcOpen
    /\ used.peer < lim.peer
    /\ used' = [used EXCEPT !.peer = @ + 1]
    /\ SendToSource(ClientMessage(channelId, CLIENT_ACTION_CREATE, newId, ""))
    /\ UNCHANGED <<srcVars, maxChannelsPerClient, tasks, srcOpen, cch, cchannels, cliOpen, linkReason, lim, timer>>

PeerCall(channelId, callId) ==
    /\ cliOpen /\ srcOpen
    /\ used.peer < lim.peer
    /\ used' = [used EXCEPT !.peer = @ + 1]
    /\ SendToSource(ClientMessage(channelId, CLIENT_ACTION_CALL, callId, ""))
    /\ UNCHANGED <<srcVars, maxChannelsPerClient, tasks, srcOpen, cch, cchannels, cliOpen, linkReason, lim, timer>>

PeerClose(channelId, reason) ==
    /\ cliOpen /\ srcOpen
    /\ used.peer < lim.peer
    /\ used' = [used EXCEPT !.peer = @ + 1]
    /\ SendToSource(ClientMessage(channelId, CLIENT_ACTION_CLOSE, 0, reason))
    /\ UNCHANGED <<srcVars, maxChannelsPerClient, tasks, srcOpen, cch, cchannels, cliOpen, linkReason, lim, timer>>

\* ------------------------------------------- Source endpoint: onMessage
\* onMessage with a message of length 1: onMessageInitialize
SrcInitialize ==
    /\ srcOpen /\ toSource # <<>> /\ Head(toSource).len = 1
    /\ Len(sch) < lim.sch
    /\ LET st == [SrcSide EXCEPT !.sch = Append(@, NewSourceChannel("root"))]
       IN SetSrcSide(Deliverable(initChannel(st, Len(st.sch), Head(toSource).channelId, maxChannelsPerClient)))
    /\ toSource' = Tail(toSource)
    /\ UNCHANGED <<maxChannelsPerClient, tasks, srcOpen, cch, cchannels, cliOpen, linkReason, lim, used, timer>>

\* RPCSource.start whose adapter delivers the client's initialize message
\* before connection(...) returns: onMessageInitialize runs on the empty
\* registry, then the queue is flushed and sendMessage is replaced
StartEarlyInitialize ==
    /\ srcOpen /\ toSource # <<>> /\ Head(toSource).len = 1
    /\ sch = <<>> /\ channels = <<>> /\ toClient = <<>>
    /\ ~disposed["root"] /\ 0 < maxChannelsPerClient
    /\ Len(sch) < lim.sch
    /\ LET st == [SrcSide EXCEPT !.sch = Append(@, NewSourceChannel("root"))]
       IN SetSrcSide(Deliverable(initDuringStart(st, Len(st.sch), Head(toSource).channelId)))
    /\ toSource' = Tail(toSource)
    /\ UNCHANGED <<maxChannelsPerClient, tasks, srcOpen, cch, cchannels, cliOpen, linkReason, lim, used, timer>>

\* onMessageInitialize for a channel of a further RPCChannel whose "ready"
\* listener closes it, over a transport that delivers synchronously
SrcInitializeInProcess(reason) ==
    /\ srcOpen /\ toSource # <<>> /\ Head(toSource).len = 1
    /\ cchannels[Head(toSource).channelId] = 0
    /\ Len(sch) < lim.sch
    /\ LET st == [SrcSide EXCEPT !.sch = Append(@, NewSourceChannel("root"))]
       IN SetSrcSide(Deliverable(initChannelInProcess(st, Len(st.sch), Head(toSource).channelId,
                                                      maxChannelsPerClient, reason)))
    /\ toSource' = Tail(toSource)
    /\ UNCHANGED <<maxChannelsPerClient, tasks, srcOpen, cch, cchannels, cliOpen, linkReason, lim, used, timer>>

\* onMessage for a channel id that is not in the registry
SrcWrongChannel ==
    /\ srcOpen /\ toSource # <<>> /\ Head(toSource).len >= 3
    /\ ChannelsGet(channels, Head(toSource).channelId) = 0
    /\ LET m == Head(toSource)
           st1 == sendMessage(SrcSide, RemoteMessage(<<m.channelId>>, REMOTE_ACTION_CLOSE, 0, "wrong channel"))
           st2 == IF m.action = CLIENT_ACTION_CREATE
                  THEN sendMessage(st1, [RemoteMessage(<<m.key>>, REMOTE_ACTION_CLOSE, 0, "wrong channel")
                                            EXCEPT !.arr = FALSE])
                  ELSE st1
       IN SetSrcSide(Deliverable(st2))
    /\ toSource' = Tail(toSource)
    /\ UNCHANGED <<maxChannelsPerClient, tasks, srcOpen, cch, cchannels, cliOpen, linkReason, lim, used, timer>>

\* onMessageNotify: the handler runs; its result and exceptions are ignored
SrcNotify ==
    /\ srcOpen /\ toSource # <<>> /\ Head(toSource).len >= 3
    /\ ChannelsGet(channels, Head(toSource).channelId) # 0
    /\ Head(toSource).action = CLIENT_ACTION_NOTIFY
    /\ toSource' = Tail(toSource)
    /\ UNCHANGED <<srcVars, maxChannelsPerClient, tasks, srcOpen, cch, cchannels, cliOpen, linkReason, lim, used, timer>>

\* onMessageCallMethod up to its await
SrcCall ==
    /\ srcOpen /\ toSource # <<>> /\ Head(toSource).len >= 3
    /\ ChannelsGet(channels, Head(toSource).channelId) # 0
    /\ Head(toSource).action = CLIENT_ACTION_CALL
    /\ tasks' = Append(tasks, [kind |-> "call", obj |-> ChannelsGet(channels, Head(toSource).channelId),
                               channelId |-> Head(toSource).channelId, key |-> Head(toSource).key,
                               full |-> FALSE, path |-> Head(toSource).path])
    /\ toSource' = Tail(toSource)
    /\ UNCHANGED <<srcVars, maxChannelsPerClient, srcOpen, cch, cchannels, cliOpen, linkReason, lim, used, timer>>

\* onMessageClose
SrcClose ==
    /\ srcOpen /\ toSource # <<>> /\ Head(toSource).len >= 3
    /\ ChannelsGet(channels, Head(toSource).channelId) # 0
    /\ Head(toSource).action = CLIENT_ACTION_CLOSE
    /\ LET m == Head(toSource)
           obj == ChannelsGet(channels, m.channelId)
           st == [SrcSide EXCEPT !.channels = ChannelsDelete(@, m.channelId)]
       IN SetSrcSide(Deliverable(close(st, obj, m.val)))
    /\ toSource' = Tail(toSource)
    /\ UNCHANGED <<maxChannelsPerClient, tasks, srcOpen, cch, cchannels, cliOpen, linkReason, lim, used, timer>>

\* onMessageCreateChannel up to its await
SrcCreate ==
    /\ srcOpen /\ toSource # <<>> /\ Head(toSource).len >= 3
    /\ ChannelsGet(channels, Head(toSource).channelId) # 0
    /\ Head(toSource).action = CLIENT_ACTION_CREATE
    /\ tasks' = Append(tasks, [kind |-> "create", obj |-> ChannelsGet(channels, Head(toSource).channelId),
                               channelId |-> Head(toSource).key, key |-> 0,
                               \* history: the registry was full when the CREATE arrived
                               full |-> Len(channels) >= maxChannelsPerClient,
                               path |-> Head(toSource).path])
    /\ toSource' = Tail(toSource)
    /\ UNCHANGED <<srcVars, maxChannelsPerClient, srcOpen, cch, cchannels, cliOpen, linkReason, lim, used, timer>>

\* onMessageCallMethod after its await: the handler returned (ok) or threw
CallFinish(i, ok) ==
    /\ i \in 1..Len(tasks) /\ tasks[i].kind = "call"
    /\ LET t == tasks[i]
           action == IF ok THEN REMOTE_ACTION_RESPONSE_OK ELSE REMOTE_ACTION_RESPONSE_ERROR
           value == IF ok THEN "result" ELSE "error"
       IN IF ok /\ sch[t.obj].closed
          THEN UNCHANGED srcVars
          ELSE SetSrcSide(Deliverable(sendMessage(SrcSide, RemoteMessage(<<t.channelId>>, action, t.key, value))))
    /\ tasks' = RemoveAt(tasks, i)
    /\ UNCHANGED <<maxChannelsPerClient, srcOpen, toSource, cch, cchannels, cliOpen, linkReason, lim, used, timer>>

\* onMessageCallMethod after its await, for the Source's default handler:
\* the function was applied and returned, or the handler threw
CallFinishDefault(i) ==
    /\ i \in 1..Len(tasks) /\ tasks[i].kind = "call"
    /\ LET t == tasks[i]
           s == sch[t.obj].source
           outcome == defaultHandler(methods[s], prefix[s], t.path, 1)
       IN IF outcome = "result"
          THEN IF sch[t.obj].closed
               THEN UNCHANGED srcVars
               ELSE SetSrcSide(Deliverable(sendMessage(SrcSide,
                        RemoteMessage(<<t.channelId>>, REMOTE_ACTION_RESPONSE_OK, t.key, "result"))))
          ELSE SetSrcSide(Deliverable(sendMessage(SrcSide,
                   RemoteMessage(<<t.channelId>>, REMOTE_ACTION_RESPONSE_ERROR, t.key, outcome))))
    /\ tasks' = RemoveAt(tasks, i)
    /\ UNCHANGED <<maxChannelsPerClient, srcOpen, toSource, cch, cchannels, cliOpen, linkReason, lim, used, timer>>

\* onMessageCreateChannel after its await: the handler returned the Source
\* result, or something that is no Source (result = "none"), or threw
CreateFinish(i, result) ==
    /\ i \in 1..Len(tasks) /\ tasks[i].kind = "create"
    /\ IF result \in Sources
       THEN /\ Len(sch) < lim.sch
            /\ LET st == [SrcSide EXCEPT !.sch = Append(@, NewSourceChannel(result))]
               IN SetSrcSide(Deliverable(initChannel(st, Len(st.sch), tasks[i].channelId, maxChannelsPerClient)))
       ELSE SetSrcSide(Deliverable(sendMessage(SrcSide,
                RemoteMessage(<<tasks[i].channelId>>, REMOTE_ACTION_CLOSE, 0, "wrong data type"))))
    /\ tasks' = RemoveAt(tasks, i)
    /\ UNCHANGED <<maxChannelsPerClient, srcOpen, toSource, cch, cchannels, cliOpen, linkReason, lim, used, timer>>

\* onMessageCreateChannel after its await: the handler returned the Source
\* Channel object obj, constructed earlier
CreateFinishChannel(i, obj) ==
    /\ i \in 1..Len(tasks) /\ tasks[i].kind = "create"
    /\ obj \in 1..Len(sch)
    /\ SetSrcSide(Deliverable(initChannel(SrcSide, obj, tasks[i].channelId, maxChannelsPerClient)))
    /\ tasks' = RemoveAt(tasks, i)
    /\ UNCHANGED <<maxChannelsPerClient, srcOpen, toSource, cch, cchannels, cliOpen, linkReason, lim, used, timer>>

\* ------------------------------------- server-side application operations
\* History: the messages a server-side operation sends carry its number
Operation == [SrcSide EXCEPT !.op = used.srv + 1]

\* History: the state changes of its Source a ready Source Channel has seen
CountChange(st, s) ==
    [st EXCEPT !.sch = [o \in 1..Len(@) |->
        IF @[o].source = s /\ @[o].ready THEN [@[o] EXCEPT !.changes = @ + 1] ELSE @[o]]]

\* setState without if (this.disposed) throw new Error("disposed")
SetStateUnchecked(s, state) ==
    /\ used.srv < lim.srv
    /\ LET st == setState(Operation, s, state)
       IN SetSrcSide(Deliverable(IF srcState[s] # state THEN CountChange(st, s) ELSE st))
    /\ used' = [used EXCEPT !.srv = @ + 1, !.thrown = ""]
    /\ UNCHANGED <<maxChannelsPerClient, tasks, srcOpen, toSource, cch, cchannels, cliOpen, linkReason, lim, timer>>

\* RPCSource.setState called by application code
SetState(s, state) ==
    /\ used.srv < lim.srv
    /\ IF disposed[s]
       THEN UNCHANGED srcVars
       ELSE LET st == setState(Operation, s, state)
            IN SetSrcSide(Deliverable(IF srcState[s] # state THEN CountChange(st, s) ELSE st))
    /\ used' = [used EXCEPT !.srv = @ + 1, !.thrown = IF disposed[s] THEN "disposed" ELSE ""]
    /\ UNCHANGED <<maxChannelsPerClient, tasks, srcOpen, toSource, cch, cchannels, cliOpen, linkReason, lim, timer>>

\* RPCSource.emit called by application code
Emit(s) ==
    /\ used.srv < lim.srv
    /\ IF disposed[s]
       THEN UNCHANGED srcVars
       ELSE SetSrcSide(Deliverable(emit(Operation, s, "event")))
    /\ used' = [used EXCEPT !.srv = @ + 1, !.thrown = IF disposed[s] THEN "disposed" ELSE ""]
    /\ UNCHANGED <<maxChannelsPerClient, tasks, srcOpen, toSource, cch, cchannels, cliOpen, linkReason, lim, timer>>

\* RPCSource.emit called by application code with the event path named ev
EmitPath(s, ev) ==
    /\ used.srv < lim.srv
    /\ IF disposed[s]
       THEN UNCHANGED srcVars
       ELSE SetSrcSide(Deliverable(emit(Operation, s, ev)))
    /\ used' = [used EXCEPT !.srv = @ + 1, !.thrown = IF disposed[s] THEN "disposed" ELSE ""]
    /\ UNCHANGED <<maxChannelsPerClient, tasks, srcOpen, toSource, cch, cchannels, cliOpen, linkReason, lim, timer>>

\* RPCSource.dispose called by application code
Dispose(s, reason) ==
    /\ used.srv < lim.srv
    /\ SetSrcSide(Deliverable(dispose(Operation, s, reason)))
    /\ used' = [used EXCEPT !.srv = @ + 1, !.thrown = ""]
    /\ UNCHANGED <<maxChannelsPerClient, tasks, srcOpen, toSource, cch, cchannels, cliOpen, linkReason, lim, timer>>

\* RPCSourceChannel.close called by application code (this.channel.close)
ChannelClose(obj, reason) ==
    /\ used.srv < lim.srv
    /\ obj \in 1..Len(sch)
    /\ SetSrcSide(Deliverable(close(Operation, obj, reason)))
    /\ used' = [used EXCEPT !.srv = @ + 1,
                            \* the queueing function throws outside any try block
                            !.thrown = IF /\ ~sch[obj].closed /\ sch[obj].queued
                                          /\ (sch[obj].ready => ChannelsGet(channels, sch[obj].channelId) # 0)
                                       THEN "TypeError" ELSE ""]
    /\ UNCHANGED <<maxChannelsPerClient, tasks, srcOpen, toSource, cch, cchannels, cliOpen, linkReason, lim, timer>>

\* emit sending to every subscriber of the channel's Source
ChannelEmitToAll(obj) ==
    /\ used.srv < lim.srv
    /\ obj \in 1..Len(sch)
    /\ IF ~sch[obj].closed /\ sch[obj].channelId # 0
       THEN SetSrcSide(Deliverable(initDataSendMessage(Operation, obj,
                RemoteMessage(subscribers[sch[obj].source].list, REMOTE_ACTION_EVENT, 0, "event"))))
       ELSE UNCHANGED srcVars
    /\ used' = [used EXCEPT !.srv = @ + 1, !.thrown = IF sch[obj].closed THEN "closed" ELSE ""]
    /\ UNCHANGED <<maxChannelsPerClient, tasks, srcOpen, toSource, cch, cchannels, cliOpen, linkReason, lim, timer>>

\* RPCSourceChannel.emit called by application code
ChannelEmit(obj) ==
    /\ used.srv < lim.srv
    /\ obj \in 1..Len(sch)
    /\ IF ~sch[obj].closed /\ sch[obj].channelId # 0
       THEN SetSrcSide(Deliverable(initDataSendMessage(Operation, obj,
                RemoteMessage(<<sch[obj].channelId>>, REMOTE_ACTION_EVENT, 0, "event"))))
       ELSE UNCHANGED srcVars
    /\ used' = [used EXCEPT !.srv = @ + 1, !.thrown = IF sch[obj].closed THEN "closed" ELSE ""]
    /\ UNCHANGED <<maxChannelsPerClient, tasks, srcOpen, toSource, cch, cchannels, cliOpen, linkReason, lim, timer>>

\* RPCSource.start: closeAll, closing the registered channels in Map order
RECURSIVE closeAll(_, _, _)
closeAll(st, chs, reason) ==
    IF chs = <<>> THEN st
    ELSE LET e == Head(chs)
         IN IF ChannelsGet(st.channels, e.id) = e.obj
            THEN closeAll(close(st, e.obj, reason), Tail(chs), reason)
            ELSE closeAll(st, Tail(chs), reason)

\* RPCSource.start: onClose, the transport's terminal close at the Source endpoint
SourceOnClose(reason) ==
    /\ srcOpen
    /\ linkReason \in {NoReason, reason}
    /\ srcOpen' = FALSE
    /\ linkReason' = reason
    /\ toSource' = <<>>
    /\ SetSrcSide(Deliverable(closeAll(SrcSide, channels, reason)))
    /\ UNCHANGED <<maxChannelsPerClient, tasks, cch, cchannels, cliOpen, lim, used, timer>>

\* RPCSource.#initChannel with the catch of onMessageInitialize when the
\* adapter's send function throws: the CLOSE that reports a refusal is tried
\* twice, the second time outside any try block; #init's sends of the STATE
\* are both inside try blocks
initChannelSendThrows(st, obj, channelId, max) ==
    IF Len(st.channels) >= max \/ st.sch[obj].ready
    THEN [st |-> st, thrown |-> st.open]
    ELSE IF ChannelsGet(st.channels, channelId) # 0
    THEN closeSendThrows(st, ChannelsGet(st.channels, channelId), "channel id conflict")
    ELSE LET s == st.sch[obj].source
             st0 == [st EXCEPT !.sch[obj].channelId = channelId, !.sch[obj].inert = ~st.open]
         IN IF st0.disposed[s]
            THEN closeSendThrows(st0, obj, st0.disposeReason[s])
            ELSE [st |-> init(st, obj, channelId), thrown |-> FALSE]

\* the Source side while the adapter's send function throws
SrcSideSendThrows == [SrcSide EXCEPT !.fails = TRUE]

\* onMessageInitialize while send throws: #init's two sends of the STATE are
\* inside try blocks; a refusal of #initChannel is sent twice, the second
\* time outside any try block
SrcInitializeSendThrows ==
    /\ srcOpen /\ toSource # <<>> /\ Head(toSource).len = 1
    /\ Len(sch) < lim.sch
    /\ LET st == [SrcSideSendThrows EXCEPT !.sch = Append(@, NewSourceChannel("root"))]
           r == initChannelSendThrows(st, Len(st.sch), Head(toSource).channelId, maxChannelsPerClient)
       IN /\ SetSrcSide(r.st)
          /\ used' = [used EXCEPT !.thrown = IF r.thrown THEN "send failed" ELSE ""]
    /\ toSource' = Tail(toSource)
    /\ UNCHANGED <<maxChannelsPerClient, tasks, srcOpen, cch, cchannels, cliOpen, linkReason, lim, timer>>

\* onMessageClose while send throws
SrcCloseSendThrows ==
    /\ srcOpen /\ toSource # <<>> /\ Head(toSource).len >= 3
    /\ ChannelsGet(channels, Head(toSource).channelId) # 0
    /\ Head(toSource).action = CLIENT_ACTION_CLOSE
    /\ LET m == Head(toSource)
           obj == ChannelsGet(channels, m.channelId)
           st == [SrcSideSendThrows EXCEPT !.channels = ChannelsDelete(@, m.channelId)]
           r == closeSendThrows(st, obj, m.val)
       IN /\ SetSrcSide(r.st)
          /\ used' = [used EXCEPT !.thrown = IF r.thrown THEN "send failed" ELSE ""]
    /\ toSource' = Tail(toSource)
    /\ UNCHANGED <<maxChannelsPerClient, tasks, srcOpen, cch, cchannels, cliOpen, linkReason, lim, timer>>

\* RPCSourceChannel.close called by application code while send throws
ChannelCloseSendThrows(obj, reason) ==
    /\ used.srv < lim.srv
    /\ obj \in 1..Len(sch)
    /\ LET r == closeSendThrows([Operation EXCEPT !.fails = TRUE], obj, reason)
       IN /\ SetSrcSide(r.st)
          /\ used' = [used EXCEPT !.srv = @ + 1,
                                  !.thrown = IF r.thrown THEN "send failed" ELSE ""]
    /\ UNCHANGED <<maxChannelsPerClient, tasks, srcOpen, toSource, cch, cchannels, cliOpen, linkReason, lim, timer>>

\* RPCSource.start: onClose while send throws
SourceOnCloseSendThrows(reason) ==
    /\ srcOpen
    /\ linkReason \in {NoReason, reason}
    /\ srcOpen' = FALSE
    /\ linkReason' = reason
    /\ toSource' = <<>>
    /\ LET r == closeAllSendThrows(SrcSideSendThrows, channels, reason)
       IN /\ SetSrcSide(r.st)
          /\ used' = [used EXCEPT !.thrown = IF r.thrown THEN "send failed" ELSE ""]
    /\ UNCHANGED <<maxChannelsPerClient, tasks, cch, cchannels, cliOpen, lim, timer>>

\* ------------------------------------------------ Channel endpoint: events
\* The event paths on the wire, by the name the model's EVENT messages carry
EventPaths ==
    [event |-> <<"event">>, p_state |-> <<"state">>, p_ready |-> <<"ready">>,
     p_error |-> <<"error">>, p_close |-> <<"close">>, p_a |-> <<"a">>,
     p_state_a |-> <<"state", "a">>]

\* JSON.stringify of a string
Quote(x) == "\"" \o x \o "\""

RECURSIVE JoinQuoted(_)
JoinQuoted(segs) ==
    IF segs = <<>> THEN ""
    ELSE IF Len(segs) = 1 THEN Quote(segs[1])
    ELSE Quote(Head(segs)) \o "," \o JoinQuoted(Tail(segs))

\* JSON.stringify of an array of strings
JSONStringify(segs) == "[" \o JoinQuoted(segs) \o "]"

\* the names getEventCode leaves as they are
BuiltInNames == {"close", "ready", "error", "state"}

\* an event name given to on(): a string (arr FALSE) or an array of strings
EventName(arr, segs) == [arr |-> arr, segs |-> segs]

\* getEventCode(path, e)
getEventCode(path, e) ==
    IF Len(path) > 0 THEN JSONStringify(path \o e.segs)
    ELSE IF ~e.arr /\ e.segs[1] \in BuiltInNames THEN e.segs[1]
    ELSE JSONStringify(e.segs)

\* events.emitWithTry(key, ...): the listeners registered under key run.
\* History: by is the kind of message dispatched, ev the name of its path
emitWithTry(ch, keys, by, ev) ==
    [ch EXCEPT !.invoked = @ \cup {[h |-> h, by |-> by, ev |-> ev] : h \in {x \in ch.handlers : x.key \in keys}}]

\* ------------------------------------------- Channel endpoint, functions
\* of the client-side state cs = [cch, cchannels, timer]
CliSide == [cch |-> cch, cchannels |-> cchannels, timer |-> timer]

SetCliSide(cs) ==
    /\ cch' = cs.cch
    /\ cchannels' = cs.cchannels
    /\ timer' = cs.timer

\* a cleanup that leaves the timer or the abort listener in place
cleanupKeepsTimer(t) == t

\* ChannelManager constructor: cleanup, clearTimeout(timer) or
\* removeEventListener("abort", onAbort)
cleanup_timer(t) == IF t \in {"timer", "signal"} THEN "cleared" ELSE t

\* "close" listeners that reject nothing
RejectNothing(calls, reason) == calls

\* the "close" listeners of proxyApply: every pending call rejects
RejectPending(calls, reason) ==
    [k \in 1..Len(calls) |->
        IF calls[k].st = "pending" THEN [calls[k] EXCEPT !.st = "rejected", !.val = reason]
        ELSE calls[k]]

\* onState firing "ready" at every STATE
onStateAlwaysReady(cs, c, state) ==
    IF cs.cch[c].closed THEN cs
    ELSE [cs EXCEPT !.cch[c].state = state,
                    !.cch[c].ready = TRUE,
                    !.cch[c].events = @ \o <<"ready", "state1">>,
                    !.timer = IF c = 1 THEN cleanup_timer(@) ELSE @]

\* Channel.onState; the "ready" event of the default channel runs the
\* constructor's cleanup listener.  History: "state1" is state(newState),
\* "state2" is state(newState, oldState)
onState(cs, c, state) ==
    IF cs.cch[c].closed THEN cs
    ELSE [cs EXCEPT !.cch[c].state = state,
                    !.cch[c].ready = TRUE,
                    !.cch[c].events = IF cs.cch[c].ready THEN Append(@, "state2")
                                      ELSE @ \o <<"ready", "state1">>,
                    !.cch[c].invoked =
                        emitWithTry(cs.cch[c], IF cs.cch[c].ready THEN {"state"} ELSE {"ready", "state"},
                                    "STATE", "").invoked,
                    !.timer = IF c = 1 /\ ~cs.cch[c].ready THEN cleanup_timer(@) ELSE @]

\* onClose without this.ready = false
onCloseKeepsReady(cs, c, reason) ==
    IF cs.cch[c].closed THEN cs
    ELSE [cs EXCEPT !.cch[c].closed = TRUE,
                    !.cch[c].closeReason = reason,
                    !.cch[c].errorReason = IF cs.cch[c].ready THEN @ ELSE reason,
                    !.cch[c].events = IF cs.cch[c].ready THEN Append(@, "close")
                                      ELSE @ \o <<"error", "close">>,
                    !.cch[c].calls = RejectPending(@, reason),
                    !.cchannels[cs.cch[c].channelId] = 0]

\* onClose with the test of wasReady inverted
onCloseErrorWhenReady(cs, c, reason) ==
    IF cs.cch[c].closed THEN cs
    ELSE [cs EXCEPT !.cch[c].ready = FALSE,
                    !.cch[c].closed = TRUE,
                    !.cch[c].closeReason = reason,
                    !.cch[c].errorReason = IF cs.cch[c].ready THEN reason ELSE @,
                    !.cch[c].events = IF cs.cch[c].ready THEN @ \o <<"error", "close">>
                                      ELSE Append(@, "close"),
                    !.cch[c].calls = RejectPending(@, reason),
                    !.cchannels[cs.cch[c].channelId] = 0]

\* Channel.onClose
onClose(cs, c, reason) ==
    IF cs.cch[c].closed THEN cs
    ELSE [cs EXCEPT !.cch[c].ready = FALSE,
                    !.cch[c].closed = TRUE,
                    !.cch[c].closeReason = reason,
                    !.cch[c].errorReason = IF cs.cch[c].ready THEN @ ELSE reason,
                    !.cch[c].events = IF cs.cch[c].ready THEN Append(@, "close")
                                      ELSE @ \o <<"error", "close">>,
                    !.cch[c].invoked =
                        emitWithTry(cs.cch[c], IF cs.cch[c].ready THEN {"close"} ELSE {"error", "close"},
                                    "CLOSE", "").invoked,
                    !.cch[c].calls = RejectPending(@, reason),
                    !.cchannels[cs.cch[c].channelId] = 0]

\* onResponse whose listener resolves whatever the operation code is
onResponseAlwaysResolve(cs, c, operationCode, callId, data) ==
    [cs EXCEPT !.cch[c].calls = [k \in 1..Len(@) |->
        IF @[k].id = callId /\ @[k].st = "pending"
        THEN [@[k] EXCEPT !.st = "resolved", !.val = data]
        ELSE @[k]]]

\* Channel.onResponse: the listeners proxyApply registered under callId run
\* (once: they are removed when the call settles)
onResponse(cs, c, operationCode, callId, data) ==
    [cs EXCEPT !.cch[c].calls = [k \in 1..Len(@) |->
        IF @[k].id = callId /\ @[k].st = "pending"
        THEN [@[k] EXCEPT !.st = IF operationCode # 0 THEN "rejected" ELSE "resolved",
                          !.val = data]
        ELSE @[k]],
               \* history: responses no listener was registered for
               !.cch[c].unmatched =
                   IF \E k \in 1..Len(cs.cch[c].calls) :
                         cs.cch[c].calls[k].id = callId /\ cs.cch[c].calls[k].st = "pending"
                   THEN @ ELSE @ + 1]

\* onEvent taking the last segment of the path as the event's key
onEventLastSegment(cs, c, ev) ==
    [cs EXCEPT !.cch[c].events = Append(@, ev),
               !.cch[c].invoked =
                   emitWithTry(cs.cch[c], {EventPaths[ev][Len(EventPaths[ev])]}, "EVENT", ev).invoked]

\* Channel.onEvent: the listeners of the path's key run, whatever the
\* channel's ready and closed flags are
onEvent(cs, c, ev) ==
    [cs EXCEPT !.cch[c].events = Append(@, ev),
               !.cch[c].invoked =
                   emitWithTry(cs.cch[c], {JSONStringify(EventPaths[ev])}, "EVENT", ev).invoked]

\* History: the server-side operations whose messages channel c dispatched
Observe(cs, c, m) ==
    IF m.op = 0 THEN cs ELSE [cs EXCEPT !.cch[c].seen = Append(@, m.op)]

\* ChannelManager.onMessage: the loop over the destination ids
RECURSIVE onMessage(_, _, _)
onMessage(cs, ids, m) ==
    IF ids = <<>> THEN cs
    ELSE LET c == cs.cchannels[Head(ids)]
             cs0 == IF c = 0 THEN cs ELSE Observe(cs, c, m)
             cs1 == IF c = 0 THEN cs0
                    ELSE IF m.action \in {REMOTE_ACTION_RESPONSE_ERROR, REMOTE_ACTION_RESPONSE_OK}
                    THEN onResponse(cs0, c, m.action, m.key, m.val)
                    ELSE IF m.action = REMOTE_ACTION_STATE THEN onState(cs0, c, m.val)
                    ELSE IF m.action = REMOTE_ACTION_CLOSE THEN onClose(cs0, c, m.val)
                    ELSE IF m.action = REMOTE_ACTION_EVENT THEN onEvent(cs0, c, m.val)
                    ELSE cs0
         IN onMessage(cs1, Tail(ids), m)

\* ChannelManager.onMessage for the next message in flight; a first element
\* that is a bare number is not iterable and the loop throws
ClientOnMessage ==
    /\ cliOpen /\ toClient # <<>>
    /\ SetCliSide(IF Head(toClient).arr THEN onMessage(CliSide, Head(toClient).ids, Head(toClient))
                  ELSE CliSide)
    /\ toClient' = Tail(toClient)
    /\ UNCHANGED <<srcState, disposed, disposeReason, listeners, sch, channels, subscribers,
                   maxChannelsPerClient, tasks, srcOpen, toSource, cliOpen, linkReason,
                   firstSent, lim, used>>

\* a call id that is not advanced
SameCallId(currentCallId) == currentCallId

\* const callId = this.currentCallId++
NextCallId(currentCallId) == currentCallId + 1

\* Channel.proxyApply: on a closed channel the promise's executor throws
\* before a call id is allocated, and the promise is rejected at once
ClientCall(c) ==
    /\ c \in 1..Len(cch)
    /\ Len(cch[c].calls) < lim.calls
    /\ IF cch[c].closed
       THEN /\ cch' = [cch EXCEPT ![c].calls = Append(@, [id |-> -1, st |-> "rejected",
                                                          val |-> "channel is closed"])]
            /\ UNCHANGED toSource
       ELSE /\ cch' = [cch EXCEPT ![c].currentCallId = NextCallId(@),
                                 ![c].calls = Append(@, [id |-> cch[c].currentCallId,
                                                         st |-> "pending", val |-> ""])]
            /\ IF cliOpen
               THEN SendToSource(ClientMessage(cch[c].channelId, CLIENT_ACTION_CALL,
                                               cch[c].currentCallId, ""))
               ELSE UNCHANGED toSource
    /\ UNCHANGED <<srcVars, maxChannelsPerClient, tasks, srcOpen, cchannels, cliOpen, linkReason, lim, used, timer>>

\* Channel.proxyApply through the proxy of the given path
ClientCallPath(c, path) ==
    /\ cliOpen
    /\ c \in 1..Len(cch) /\ ~cch[c].closed
    /\ Len(cch[c].calls) < lim.calls
    /\ cch' = [cch EXCEPT ![c].currentCallId = NextCallId(@),
                          ![c].calls = Append(@, [id |-> cch[c].currentCallId,
                                                  st |-> "pending", val |-> ""])]
    /\ SendToSource([ClientMessage(cch[c].channelId, CLIENT_ACTION_CALL, cch[c].currentCallId, "")
                        EXCEPT !.path = path])
    /\ UNCHANGED <<srcVars, maxChannelsPerClient, tasks, srcOpen, cchannels, cliOpen, linkReason, lim, used, timer>>

\* the proxy's notify
ClientNotify(c) ==
    /\ cliOpen
    /\ c \in 1..Len(cch) /\ ~cch[c].closed
    /\ used.notify < lim.notify
    /\ used' = [used EXCEPT !.notify = @ + 1]
    /\ SendToSource(ClientMessage(cch[c].channelId, CLIENT_ACTION_NOTIFY, 0, ""))
    /\ UNCHANGED <<srcVars, maxChannelsPerClient, tasks, srcOpen, cch, cchannels, cliOpen, linkReason, lim, timer>>

\* createProxy(path): on(eventName, handler) of the proxy at path
ClientOn(c, path, e) ==
    /\ c \in 1..Len(cch)
    /\ Cardinality(cch[c].handlers) < lim.handlers
    /\ cch' = [cch EXCEPT ![c].handlers = @ \cup {[path |-> path, e |-> e, key |-> getEventCode(path, e)]}]
    /\ UNCHANGED <<srcVars, maxChannelsPerClient, tasks, srcOpen, toSource, cchannels, cliOpen, linkReason, lim, used, timer>>

\* Channel.proxyConstruct with ChannelManager.createNextChannel; newId is
\* what getNextChannelId returns (an id in the registry makes it throw)
ClientCreate(c, newId) ==
    /\ cliOpen
    /\ c \in 1..Len(cch) /\ ~cch[c].closed
    /\ Len(cch) < lim.cch
    /\ newId \in Ids /\ cchannels[newId] = 0
    /\ cch' = Append(cch, NewChannel(newId))
    /\ cchannels' = [cchannels EXCEPT ![newId] = Len(cch) + 1]
    /\ SendToSource(ClientMessage(cch[c].channelId, CLIENT_ACTION_CREATE, newId, ""))
    /\ UNCHANGED <<srcVars, maxChannelsPerClient, tasks, srcOpen, cliOpen, linkReason, lim, used, timer>>

\* close without if (this.closed) return
Channel_closeAgain(c, reason) ==
    /\ cch' = [cch EXCEPT ![c].ready = FALSE,
                          ![c].closed = TRUE,
                          ![c].closeReason = reason,
                          ![c].events = Append(@, "close"),
                          ![c].calls = RejectPending(@, reason),
                          ![c].closesSent = IF cliOpen /\ srcOpen THEN @ + 1 ELSE @]
    /\ cchannels' = [cchannels EXCEPT ![cch[c].channelId] = 0]
    /\ IF cliOpen THEN SendToSource(ClientMessage(cch[c].channelId, CLIENT_ACTION_CLOSE, 0, reason))
       ELSE UNCHANGED toSource

\* Channel.close, as the change it makes to the client side and the link
Channel_close(c, reason) ==
    IF cch[c].closed THEN UNCHANGED <<cch, cchannels, toSource>>
    ELSE /\ cch' = [cch EXCEPT ![c].ready = FALSE,
                               ![c].closed = TRUE,
                               ![c].closeReason = reason,
                               ![c].events = Append(@, "close"),
                               ![c].invoked = emitWithTry(cch[c], {"close"}, "close()", "").invoked,
                               ![c].calls = RejectPending(@, reason),
                               ![c].closesSent = IF cliOpen /\ srcOpen THEN @ + 1 ELSE @]
         /\ cchannels' = [cchannels EXCEPT ![cch[c].channelId] = 0]
         /\ IF cliOpen THEN SendToSource(ClientMessage(cch[c].channelId, CLIENT_ACTION_CLOSE, 0, reason))
            ELSE UNCHANGED toSource

\* Channel.close called by application code on a channel that is not closed
ClientClose(c, reason) ==
    /\ c \in 1..Len(cch) /\ ~cch[c].closed
    /\ Channel_close(c, reason)
    /\ UNCHANGED <<srcVars, maxChannelsPerClient, tasks, srcOpen, cliOpen, linkReason, lim, used, timer>>

\* ChannelManager constructor: the setTimeout callback (reason "timeout") or
\* onAbort (the signal's reason): defaultChannel.close(reason); cleanup()
TimerExpire ==
    /\ timer \in {"timer", "signal"}
    /\ Channel_close(1, IF timer = "timer" THEN "timeout" ELSE "aborted")
    /\ timer' = "fired"
    /\ UNCHANGED <<srcVars, maxChannelsPerClient, tasks, srcOpen, cliOpen, linkReason, lim, used>>

\* ChannelManager.onClose, the transport's terminal close at the Channel endpoint
RECURSIVE closeChannels(_, _, _)
closeChannels(cs, ids, reason) ==
    IF ids = {} THEN cs
    ELSE LET id == CHOOSE x \in ids : TRUE
         IN closeChannels(IF cs.cchannels[id] = 0 THEN cs ELSE onClose(cs, cs.cchannels[id], reason),
                          ids \ {id}, reason)

ClientOnClose(reason) ==
    /\ cliOpen
    /\ linkReason \in {NoReason, reason}
    /\ cliOpen' = FALSE
    /\ linkReason' = reason
    /\ toClient' = <<>>
    /\ SetCliSide(closeChannels(CliSide, Ids, reason))
    /\ UNCHANGED <<srcState, disposed, disposeReason, listeners, sch, channels, subscribers,
                   maxChannelsPerClient, tasks, srcOpen, toSource, firstSent, lim, used>>

\* ---------------------------------------------------------- specifications
\* Replication: nested channels on the Source "inner" are opened and closed
\* while the application changes its state, emits and disposes it.  Channel
\* ids come from a counter, as in the test harness.
ReplClientChannels == 3
ReplSourceChannels == 3
ReplServerOps == 2

InitReplication ==
    /\ InitWith([cch |-> ReplClientChannels, sch |-> ReplSourceChannels, calls |-> 0,
                 srv |-> ReplServerOps, notify |-> 0, peer |-> 0, handlers |-> 0], {Infinity})
    /\ timer = "unset"

NextReplication ==
    \/ SrcInitialize
    \/ SrcWrongChannel
    \/ SrcClose
    \/ SrcCreate
    \/ \E i \in 1..Len(tasks) : CreateFinish(i, "inner")
    \/ \E state \in States : SetState("inner", state)
    \/ Emit("inner")
    \/ Dispose("inner", "gone")
    \/ \E obj \in 1..Len(sch) : ChannelEmit(obj)
    \/ ClientOnMessage
    \/ \E c \in 1..Len(cch) : ClientCreate(c, Len(cch) + 1)
    \/ \E c \in 1..Len(cch) : ClientClose(c, "bye")

SpecReplication == InitReplication /\ [][NextReplication]_vars

\* Initialization: besides the root RPCChannel, a further RPCChannel on the
\* link opens and closes channels under ids it chooses freely, on the Sources
\* "inner" and "store" (auto-dispose), with maxChannelsPerClient either
\* SmallLimit or the default, while the application disposes Sources and
\* closes Source Channels and the link may close.
SmallLimit == 2
InitSourceChannels == 4
InitServerOps == 1
InitPeerMessages == 3

\* the peer sends its next message once the previous ones are delivered
LinkIdle == toSource = <<>> /\ toClient = <<>>

InitInit ==
    /\ InitWith([cch |-> 1, sch |-> InitSourceChannels, calls |-> 0,
                 srv |-> InitServerOps, notify |-> 0, peer |-> InitPeerMessages, handlers |-> 0],
                {SmallLimit, Infinity})
    /\ timer = "unset"

NextInit ==
    \/ SrcInitialize
    \/ SrcWrongChannel
    \/ SrcClose
    \/ SrcCreate
    \/ \E i \in 1..Len(tasks), result \in {"inner", "store"} : CreateFinish(i, result)
    \/ LinkIdle /\ \E id \in Ids : PeerInitialize(id)
    \/ LinkIdle /\ \E id \in Ids, newId \in Ids : PeerCreate(id, newId)
    \/ LinkIdle /\ \E id \in Ids : PeerClose(id, "bye")
    \/ \E s \in Sources : Dispose(s, "gone")
    \/ \E obj \in 1..Len(sch) : ChannelClose(obj, "srv")
    \/ SourceOnClose("lost")
    \/ ClientOnMessage

SpecInit == InitInit /\ [][NextInit]_vars

\* Calls: the client calls methods on the root channel, handlers return or
\* throw, the channel is closed from either side, a peer's call names the
\* root channel's id, and the transport closes the link.
CallsPerChannel == 3
CallsServerOps == 1
CallsPeerMessages == 1

InitCalls ==
    /\ InitWith([cch |-> 1, sch |-> 1, calls |-> CallsPerChannel,
                 srv |-> CallsServerOps, notify |-> 0, peer |-> CallsPeerMessages, handlers |-> 0], {Infinity})
    /\ timer = "unset"

NextCalls ==
    \/ SrcInitialize
    \/ SrcWrongChannel
    \/ SrcCall
    \/ SrcClose
    \/ \E i \in 1..Len(tasks), ok \in BOOLEAN : CallFinish(i, ok)
    \/ ChannelClose(1, "srv")
    \/ PeerCall(1, 0)
    \/ ClientOnMessage
    \/ ClientCall(1)
    \/ ClientClose(1, "bye")
    \/ SourceOnClose("lost")
    \/ ClientOnClose("lost")

SpecCalls == InitCalls /\ [][NextCalls]_vars

\* Link closure: nested channels on the auto-dispose Source "store" are
\* constructed and called while the transport closes the link at both
\* endpoints with the reason "lost".
LinkClientChannels == 3
LinkSourceChannels == 3
LinkCalls == 1

InitLink ==
    /\ InitWith([cch |-> LinkClientChannels, sch |-> LinkSourceChannels, calls |-> LinkCalls,
                 srv |-> 0, notify |-> 0, peer |-> 0, handlers |-> 0], {Infinity})
    /\ timer = "unset"

NextLink ==
    \/ SrcInitialize
    \/ SrcCall
    \/ SrcCreate
    \/ \E i \in 1..Len(tasks) : CallFinish(i, TRUE)
    \/ \E i \in 1..Len(tasks) : CreateFinish(i, "store")
    \/ ClientOnMessage
    \/ \E c \in 1..Len(cch) : ClientCall(c)
    \/ \E c \in 1..Len(cch) : ClientCreate(c, Len(cch) + 1)
    \/ SourceOnClose("lost")
    \/ ClientOnClose("lost")

SpecLink == InitLink /\ [][NextLink]_vars

\* Events: a Channel endpoint constructed with a connectionTimeout (a number
\* or an AbortSignal, possibly aborted already) or without one; the root
\* channel and a nested channel receive STATE and CLOSE while the application
\* changes the root Source's state, disposes it and closes channels at either
\* endpoint, the timer expires and the link closes.
EventsClientChannels == 2
EventsSourceChannels == 2
EventsServerOps == 2

EventsLimits ==
    [cch |-> EventsClientChannels, sch |-> EventsSourceChannels, calls |-> 0,
     srv |-> EventsServerOps, notify |-> 0, peer |-> 0, handlers |-> 0]

\* ChannelManager constructor with a signal that is aborted already: the
\* default channel is closed at once, it is not registered and the
\* connection is never opened
InitAborted ==
    /\ lim = EventsLimits
    /\ used = [srv |-> 0, notify |-> 0, peer |-> 0, thrown |-> ""]
    /\ srcState = [s \in Sources |-> "a"]
    /\ disposed = [s \in Sources |-> FALSE]
    /\ disposeReason = [s \in Sources |-> NoReason]
    /\ listeners = [s \in Sources |-> <<>>]
    /\ sch = <<>>
    /\ channels = <<>>
    /\ subscribers = [s \in Sources |-> NoEntry]
    /\ maxChannelsPerClient = Infinity
    /\ tasks = <<>>
    /\ srcOpen = TRUE
    /\ toSource = <<>>
    /\ toClient = <<>>
    /\ cch = <<[NewChannel(1) EXCEPT !.closed = TRUE, !.closeReason = "aborted",
                                     !.events = <<"close">>]>>
    /\ cchannels = [id \in Ids |-> 0]
    /\ cliOpen = TRUE
    /\ linkReason = NoReason
    /\ firstSent = [id \in Ids |-> [any |-> NoMessage, data |-> NoMessage, closes |-> 0]]
    /\ timer = "aborted"

InitEvents ==
    \/ /\ InitWith(EventsLimits, {Infinity})
       /\ timer \in {"unset", "timer", "signal"}
    \/ InitAborted

NextEvents ==
    \/ SrcInitialize
    \/ SrcWrongChannel
    \/ SrcClose
    \/ SrcCreate
    \/ \E i \in 1..Len(tasks) : CreateFinish(i, "root")
    \/ \E state \in States : SetState("root", state)
    \/ Dispose("root", "gone")
    \/ \E obj \in 1..Len(sch) : ChannelClose(obj, "srv")
    \/ ClientOnMessage
    \/ \E c \in 1..Len(cch) : ClientCreate(c, Len(cch) + 1)
    \/ \E c \in 1..Len(cch) : ClientClose(c, "bye")
    \/ TimerExpire
    \/ SourceOnClose("lost")
    \/ ClientOnClose("lost")

SpecEvents == InitEvents /\ [][NextEvents]_vars

\* Construction: the client constructs nested channels whose handlers return
\* the Source "inner", a Source Channel object constructed earlier (ready,
\* closed or never initialized), or no Source at all (or throw), with
\* maxChannelsPerClient either SmallLimit or the default, while the
\* application closes Source Channels or disposes "inner".
CreateClientChannels == 3
CreateSourceChannels == 3
CreateServerOps == 1

InitCreate ==
    /\ InitWith([cch |-> CreateClientChannels, sch |-> CreateSourceChannels, calls |-> 0,
                 srv |-> CreateServerOps, notify |-> 0, peer |-> 0, handlers |-> 0],
                {SmallLimit, Infinity})
    /\ timer = "unset"

NextCreate ==
    \/ SrcInitialize
    \/ SrcWrongChannel
    \/ SrcClose
    \/ SrcCreate
    \/ \E i \in 1..Len(tasks), result \in {"inner", "none"} : CreateFinish(i, result)
    \/ \E i \in 1..Len(tasks), obj \in 1..Len(sch) : CreateFinishChannel(i, obj)
    \/ \E obj \in 1..Len(sch) : ChannelClose(obj, "srv")
    \/ Dispose("inner", "gone")
    \/ ClientOnMessage
    \/ \E c \in 1..Len(cch) : ClientCreate(c, Len(cch) + 1)
    \/ \E c \in 1..Len(cch) : ClientClose(c, "bye")

SpecCreate == InitCreate /\ [][NextCreate]_vars

\* Paths: the client calls methods by every path of up to MaxPathLen
\* segments on the root channel (a Source built from a record of methods) and
\* on a nested channel of the Source "inner" (a class with the prefix "$").
MaxPathLen == 2
PathCalls == 1
PathClientChannels == 2

Segments == {"ping", "math", "floor", "empty", "version", "constructor", "__proto__", "setName"}

Paths == UNION {[1..n -> Segments] : n \in 0..MaxPathLen}

InitPath ==
    /\ InitWith([cch |-> PathClientChannels, sch |-> PathClientChannels, calls |-> PathCalls,
                 srv |-> 0, notify |-> 0, peer |-> 0, handlers |-> 0], {Infinity})
    /\ timer = "unset"

NextPath ==
    \/ SrcInitialize
    \/ SrcCall
    \/ SrcCreate
    \/ \E i \in 1..Len(tasks) : CallFinishDefault(i)
    \/ \E i \in 1..Len(tasks) : CreateFinish(i, "inner")
    \/ ClientOnMessage
    \/ \E c \in 1..Len(cch), path \in Paths : ClientCallPath(c, path)
    \/ \E c \in 1..Len(cch) : ClientCreate(c, Len(cch) + 1)

SpecPath == InitPath /\ [][NextPath]_vars

\* Event keys: the client registers listeners on the root channel's proxy and
\* on the proxy at the path ["state"], under built-in names, custom names and
\* array paths, while the application emits events by every path of
\* EventPaths, changes the state and disposes the Source.
KeysHandlers == 2
KeysServerOps == 2

ProxyPaths == {<<>>, <<"state">>}

EventNames ==
    {EventName(FALSE, <<n>>) : n \in BuiltInNames \cup {"a"}}
        \cup {EventName(TRUE, <<"state">>), EventName(TRUE, <<"close">>), EventName(TRUE, <<"state", "a">>)}

InitKeys ==
    /\ InitWith([cch |-> 1, sch |-> 1, calls |-> 0, srv |-> KeysServerOps,
                 notify |-> 0, peer |-> 0, handlers |-> KeysHandlers], {Infinity})
    /\ timer = "unset"

NextKeys ==
    \/ SrcInitialize
    \/ \E ev \in DOMAIN EventPaths : EmitPath("root", ev)
    \/ \E state \in States : SetState("root", state)
    \/ Dispose("root", "gone")
    \/ \E path \in ProxyPaths, e \in EventNames : ClientOn(1, path, e)
    \/ ClientOnMessage

SpecKeys == InitKeys /\ [][NextKeys]_vars

\* In-process link: further RPCChannels are opened on the Source over a
\* transport that delivers every message before send returns.
InProcSourceChannels == 3
InProcServerOps == 1
InProcPeerMessages == 3

InitInProcess ==
    /\ InitWith([cch |-> 1, sch |-> InProcSourceChannels, calls |-> 0,
                 srv |-> InProcServerOps, notify |-> 0, peer |-> InProcPeerMessages, handlers |-> 0],
                {Infinity})
    /\ timer = "unset"

NextInProcess ==
    \/ SrcInitialize
    \/ SrcInitializeInProcess("bye")
    \/ SrcWrongChannel
    \/ SrcClose
    \/ LinkIdle /\ \E id \in Ids : PeerInitialize(id)
    \/ LinkIdle /\ \E id \in Ids : PeerClose(id, "bye")
    \/ \E state \in States : SetState("root", state)
    \/ \E obj \in 1..Len(sch) : ChannelClose(obj, "srv")
    \/ ClientOnMessage

SpecInProcess == InitInProcess /\ [][NextInProcess]_vars

\* Failing transport: channels are opened over a working link and closed by
\* the client, the server and the link while the adapter's send function
\* throws.
FailClientChannels == 3
FailSourceChannels == 3
FailServerOps == 1

InitSendThrows ==
    /\ InitWith([cch |-> FailClientChannels, sch |-> FailSourceChannels, calls |-> 0,
                 srv |-> FailServerOps, notify |-> 0, peer |-> 0, handlers |-> 0],
                {SmallLimit, Infinity})
    /\ timer = "unset"

NextSendThrows ==
    \/ SrcInitialize
    \/ SrcInitializeSendThrows
    \/ SrcCreate
    \/ \E i \in 1..Len(tasks), result \in {"inner", "store"} : CreateFinish(i, result)
    \/ SrcWrongChannel
    \/ SrcCloseSendThrows
    \/ \E obj \in 1..Len(sch) : ChannelCloseSendThrows(obj, "srv")
    \/ SourceOnCloseSendThrows("lost")
    \/ \E c \in 1..Len(cch) : ClientCreate(c, Len(cch) + 1)
    \/ \E c \in 1..Len(cch) : ClientClose(c, "bye")
    \/ ClientOnMessage

SpecSendThrows == InitSendThrows /\ [][NextSendThrows]_vars

\* Early initialize: the adapter delivers the root channel's initialize
\* message inside RPCSource.start; afterwards the client calls and creates
\* channels and the application changes the state, emits and closes.
StartClientChannels == 2
StartSourceChannels == 2
StartServerOps == 2
StartCalls == 1

InitStart ==
    /\ InitWith([cch |-> StartClientChannels, sch |-> StartSourceChannels, calls |-> StartCalls,
                 srv |-> StartServerOps, notify |-> 0, peer |-> 0, handlers |-> 0], {Infinity})
    /\ timer = "unset"

NextStart ==
    \/ StartEarlyInitialize
    \/ SrcCall
    \/ \E i \in 1..Len(tasks), ok \in BOOLEAN : CallFinish(i, ok)
    \/ SrcCreate
    \/ \E i \in 1..Len(tasks) : CreateFinish(i, "root")
    \/ SrcClose
    \/ SrcWrongChannel
    \/ \E state \in States : SetState("root", state)
    \/ Emit("root")
    \/ \E obj \in 1..Len(sch) : ChannelEmit(obj)
    \/ \E obj \in 1..Len(sch) : ChannelClose(obj, "srv")
    \/ ClientOnMessage
    \/ \E c \in 1..Len(cch) : ClientCall(c)
    \/ \E c \in 1..Len(cch) : ClientCreate(c, Len(cch) + 1)
    \/ \E c \in 1..Len(cch) : ClientClose(c, "bye")

SpecStart == InitStart /\ [][NextStart]_vars

\* ------------------------------------------------------------------ claims
Quiescent == toSource = <<>> /\ toClient = <<>> /\ tasks = <<>>

Count(seq, x) == Cardinality({i \in 1..Len(seq) : seq[i] = x})

\* C1: when nothing is in flight and no handler is pending, every ready
\* client channel whose id is registered on the Source endpoint holds the
\* current state of the Source it is bound to and has fired one
\* state(new, old) event per state change made since it became ready.
C1_ReplicationConverges ==
    Quiescent =>
        \A id \in Ids :
            LET c == cchannels[id]
                o == ChannelsGet(channels, id)
            IN (c # 0 /\ o # 0 /\ cch[c].ready) =>
                  /\ cch[c].state = srcState[sch[o].source]
                  /\ Count(cch[c].events, "state2") = sch[o].changes

\* the messages handed to the transport's send function by a step
NewlySent == SubSeq(toClient', Len(toClient) + 1, Len(toClient'))

\* the registered channel ids bound to Source s
BoundIds(s) ==
    {id \in Ids : ChannelsGet(channels, id) # 0 /\ sch[ChannelsGet(channels, id)].source = s}

\* the channel ids on the Subscriber Map's list of Source s
SubscribedIds(s) ==
    {subscribers[s].list[k] : k \in 1..Len(subscribers[s].list)}

ClosesSentTo(id, reason) ==
    {k \in 1..Len(NewlySent) : /\ NewlySent[k].action = REMOTE_ACTION_CLOSE
                               /\ InSeq(id, NewlySent[k].ids)
                               /\ NewlySent[k].val = reason}

\* C7: a step that disposes Source s sends CLOSE(reason) to exactly the
\* registered channels bound to s and removes them from the registry; every
\* channel bound to another Source stays registered and ready and is sent
\* no CLOSE.
C7_DisposeStep(s) ==
    (cliOpen /\ ~disposed[s] /\ disposed'[s]) =>
        \A id \in Ids :
            IF id \in BoundIds(s)
            THEN /\ ChannelsGet(channels', id) = 0
                 /\ Cardinality(ClosesSentTo(id, disposeReason'[s])) = 1
            ELSE /\ ChannelsGet(channels', id) = ChannelsGet(channels, id)
                 /\ ChannelsGet(channels, id) # 0 => sch'[ChannelsGet(channels, id)].ready
                 /\ \A k \in 1..Len(NewlySent) :
                        NewlySent[k].action = REMOTE_ACTION_CLOSE => ~InSeq(id, NewlySent[k].ids)

C7_DisposeExact == [][\A s \in Sources : C7_DisposeStep(s)]_vars

\* the Source Channel objects initialized under channel id
InitedAs(id) == {o \in 1..Len(sch) : sch[o].inited /\ sch[o].channelId = id}

StrictlyIncreasing(seq) == \A i, j \in 1..Len(seq) : i < j => seq[i] < seq[j]

InitStep == Len(sch') = Len(sch) + 1

\* the channel id such a step was asked to initialize
AttemptedId ==
    IF tasks' = tasks THEN Head(toSource).channelId
    ELSE tasks[CHOOSE i \in 1..Len(tasks) : tasks' = RemoveAt(tasks, i)].channelId

LinkOpen == srcOpen /\ cliOpen

\* nothing about channel id other changes and nothing is addressed to it
Unaffected(other) ==
    /\ ChannelsGet(channels', other) = ChannelsGet(channels, other)
    /\ ChannelsGet(channels, other) # 0 =>
          sch'[ChannelsGet(channels, other)] = sch[ChannelsGet(channels, other)]
    /\ \A k \in 1..Len(NewlySent) : ~InSeq(other, NewlySent[k].ids)

ConflictOutcome(id, prior) ==
    /\ sch'[prior].closed /\ sch'[prior].closeReason = "channel id conflict"
    /\ LinkOpen => Cardinality(ClosesSentTo(id, "channel id conflict")) = 1
    /\ ~sch'[Len(sch')].ready
    /\ \A k \in 1..Len(channels') : channels'[k].id # id /\ channels'[k].obj # Len(sch')

\* the same, where the dispose of an auto-dispose Source may repeat the CLOSE
ConflictOutcomeBelowLimit(id, prior) ==
    /\ sch'[prior].closed /\ sch'[prior].closeReason = "channel id conflict"
    /\ LinkOpen => /\ Cardinality(ClosesSentTo(id, "channel id conflict")) >= 1
                   /\ ~autoDispose[sch[prior].source] =>
                         Cardinality(ClosesSentTo(id, "channel id conflict")) = 1
    /\ ~sch'[Len(sch')].ready
    /\ \A k \in 1..Len(channels') : channels'[k].id # id /\ channels'[k].obj # Len(sch')

DisposedStays ==
    \A s \in Sources : disposed[s] => disposed'[s] /\ disposeReason'[s] = disposeReason[s]

\* the new Source Channel of an initializing step is left out of the channel
\* registry and of the Subscriber Map and is not ready
NothingInserted ==
    /\ \A k \in 1..Len(channels') : channels'[k].obj # Len(sch')
    /\ Len(subscribers'[sch'[Len(sch')].source].list) <= Len(subscribers[sch'[Len(sch')].source].list)
    /\ listeners'[sch'[Len(sch')].source] = listeners[sch'[Len(sch')].source]
    /\ ~sch'[Len(sch')].ready

\* the step's only message is CLOSE(reason) to [id]
AnsweredWithClose(id, reason) ==
    /\ Len(NewlySent) = 1
    /\ NewlySent[1].ids = <<id>>
    /\ NewlySent[1].action = REMOTE_ACTION_CLOSE
    /\ NewlySent[1].val = reason

\* C8 as stated: a disposed Source stays disposed, and every attempt to
\* initialize a channel bound to a disposed Source inserts nothing and is
\* answered with CLOSE carrying the stored dispose reason.
C8_DisposedRejectsAlways ==
    [][/\ DisposedStays
       /\ (InitStep /\ disposed[sch'[Len(sch')].source]) =>
             /\ NothingInserted
             /\ LinkOpen => AnsweredWithClose(AttemptedId, disposeReason[sch'[Len(sch')].source])]_vars

\* C8: a disposed Source stays disposed with the reason of the first
\* dispose, and every attempt to initialize a channel bound to a disposed
\* Source inserts nothing; it is answered with CLOSE carrying the stored
\* dispose reason when the registry is below maxChannelsPerClient and the
\* requested id has no live entry (the limit and the id conflict are tested
\* first and answer with their own reasons).
C8_DisposedRejects ==
    [][/\ DisposedStays
       /\ (InitStep /\ disposed[sch'[Len(sch')].source]) =>
             /\ NothingInserted
             /\ (LinkOpen /\ Len(channels) < maxChannelsPerClient
                          /\ ChannelsGet(channels, AttemptedId) = 0) =>
                   AnsweredWithClose(AttemptedId, disposeReason[sch'[Len(sch')].source])]_vars

\* a channel requested on a disposed Source was closed with the dispose
\* reason without ever being initialized
C8_Witness ==
    \E o \in 1..Len(sch) :
        /\ disposed[sch[o].source] /\ disposeReason[sch[o].source] = "gone"
        /\ sch[o].closed /\ sch[o].closeReason = "gone" /\ ~sch[o].inited
        /\ \A k \in 1..Len(channels) : channels[k].obj # o

\* what the close of Source Channel o in a step does to its Source
AutoDisposeOutcome(o) ==
    IF autoDispose[sch[o].source]
    THEN /\ disposed'[sch[o].source]
         /\ ~disposed[sch[o].source] => disposeReason'[sch[o].source] = sch'[o].closeReason
    ELSE disposed'[sch[o].source] = disposed[sch[o].source]

Pending(call) == call.st = "pending"

\* C3: a closed client channel has no pending call, and in the step in which
\* a client channel becomes closed (incoming CLOSE, local close, link
\* closure) every call pending on it is rejected with the channel's close
\* reason.
C3_PendingRejectedOnClose ==
    [][\A c \in 1..Len(cch') :
          /\ cch'[c].closed => \A k \in 1..Len(cch'[c].calls) : ~Pending(cch'[c].calls[k])
          /\ (c <= Len(cch) /\ ~cch[c].closed /\ cch'[c].closed) =>
                \A k \in 1..Len(cch[c].calls) :
                    Pending(cch[c].calls[k]) =>
                        cch'[c].calls[k] = [id |-> cch[c].calls[k].id, st |-> "rejected",
                                            val |-> cch'[c].closeReason]]_vars

\* a channel closed by the Source's CLOSE rejected two pending calls with its
\* reason after another call had been answered
C3_Witness ==
    \E c \in 1..Len(cch) :
        /\ cch[c].closed /\ cch[c].closeReason = "srv"
        /\ \E i, j, k \in 1..Len(cch[c].calls) :
              /\ i # j
              /\ cch[c].calls[i] = [id |-> cch[c].calls[i].id, st |-> "rejected", val |-> "srv"]
              /\ cch[c].calls[j] = [id |-> cch[c].calls[j].id, st |-> "rejected", val |-> "srv"]
              /\ cch[c].calls[k].st = "resolved"

\* the message the client endpoint dispatches in this step, if it does
Dispatching == cliOpen /\ cliOpen' /\ toClient # <<>> /\ toClient' = Tail(toClient)

IsResponse(m) ==
    m.arr /\ m.action \in {REMOTE_ACTION_RESPONSE_OK, REMOTE_ACTION_RESPONSE_ERROR}

\* the response in flight first is addressed to channel c and answers call
SettledByResponse(c, old, new) ==
    /\ Dispatching /\ IsResponse(Head(toClient))
    /\ InSeq(cch[c].channelId, Head(toClient).ids) /\ cchannels[cch[c].channelId] = c
    /\ Head(toClient).key = old.id
    /\ new.val = Head(toClient).val
    /\ new.st = IF Head(toClient).action = REMOTE_ACTION_RESPONSE_OK THEN "resolved" ELSE "rejected"

SettledByClose(c, new) ==
    ~cch[c].closed /\ cch'[c].closed /\ new.st = "rejected" /\ new.val = cch'[c].closeReason

\* C4: a settled call never changes again; a pending call settles only by a
\* RESPONSE_OK or RESPONSE_ERROR addressed to its channel with its call id,
\* taking the response's value, or by the channel's close; the call ids
\* allocated on a channel are strictly increasing; and dispatching a response
\* that matches no pending call of a channel leaves the channel's calls and
\* state unchanged.
C4_SettledOnce ==
    [][/\ \A c \in 1..Len(cch) : \A k \in 1..Len(cch[c].calls) :
             /\ cch'[c].calls[k].id = cch[c].calls[k].id
             /\ ~Pending(cch[c].calls[k]) => cch'[c].calls[k] = cch[c].calls[k]
             /\ (Pending(cch[c].calls[k]) /\ ~Pending(cch'[c].calls[k])) =>
                   \/ SettledByResponse(c, cch[c].calls[k], cch'[c].calls[k])
                   \/ SettledByClose(c, cch'[c].calls[k])
       /\ \A c \in 1..Len(cch') :
             StrictlyIncreasing(SelectSeq([k \in 1..Len(cch'[c].calls) |-> cch'[c].calls[k].id],
                                          LAMBDA n : n >= 0))
       /\ (Dispatching /\ IsResponse(Head(toClient))) =>
             \A c \in 1..Len(cch) :
                 (\A k \in 1..Len(cch[c].calls) :
                     ~(Pending(cch[c].calls[k]) /\ cch[c].calls[k].id = Head(toClient).key
                       /\ cchannels[cch[c].channelId] = c
                       /\ InSeq(cch[c].channelId, Head(toClient).ids)))
                 => [cch'[c] EXCEPT !.unmatched = 0] = [cch[c] EXCEPT !.unmatched = 0]]_vars

\* one channel has a call resolved by RESPONSE_OK, a later call rejected by
\* RESPONSE_ERROR, and has dropped a response that matched no pending call
C4_Witness ==
    \E c \in 1..Len(cch) :
        /\ cch[c].unmatched >= 1
        /\ \E i, j \in 1..Len(cch[c].calls) :
              /\ i < j
              /\ cch[c].calls[i].st = "resolved" /\ cch[c].calls[i].val = "result"
              /\ cch[c].calls[j].st = "rejected" /\ cch[c].calls[j].val = "error"

\* C10: in the step in which the transport's terminal close reaches the
\* Channel endpoint every registered client channel becomes closed with the
\* link's reason and its pending calls are rejected with it; in the step in
\* which it reaches the Source endpoint every registered Source Channel
\* becomes closed with the link's reason; and from then on the endpoint's
\* registry is empty.
C10_LinkClosure ==
    [][/\ (cliOpen /\ ~cliOpen') =>
             \A id \in Ids : cchannels[id] # 0 =>
                 /\ cch'[cchannels[id]].closed
                 /\ cch'[cchannels[id]].closeReason = linkReason'
                 /\ \A k \in 1..Len(cch[cchannels[id]].calls) :
                       Pending(cch[cchannels[id]].calls[k]) =>
                           /\ cch'[cchannels[id]].calls[k].st = "rejected"
                           /\ cch'[cchannels[id]].calls[k].val = linkReason'
       /\ (srcOpen /\ ~srcOpen') =>
             \A k \in 1..Len(channels) :
                 /\ sch'[channels[k].obj].closed
                 /\ sch'[channels[k].obj].closeReason = linkReason'
       /\ ~cliOpen' => \A id \in Ids : cchannels'[id] = 0
       /\ ~srcOpen' => channels' = <<>>]_vars

\* ------------------------------------------------- Channel endpoint events
\* the channel has fired "ready"
EverReady(c) == InSeq("ready", cch[c].events)

IsStateEvent(e) == e \in {"state1", "state2"}

\* C11: every client channel has fired "close" once if it is closed and
\* never otherwise, has fired "ready" at most once, and each state listener
\* invocation comes after "ready": the first is state(newState), directly
\* after "ready", and every later one is state(newState, oldState).
C11_EventOrder ==
    \A c \in 1..Len(cch) :
        LET ev == cch[c].events
        IN /\ Count(ev, "close") = (IF cch[c].closed THEN 1 ELSE 0)
           /\ Count(ev, "ready") <= 1
           /\ \A k \in 1..Len(ev) :
                 /\ ev[k] = "state1" =>
                       /\ k > 1 /\ ev[k - 1] = "ready"
                       /\ \A j \in 1..(k - 1) : ~IsStateEvent(ev[j])
                 /\ ev[k] = "state2" =>
                       \E j \in 1..(k - 1) : ev[j] = "state1"

\* a channel received its initial state and a state change and was closed,
\* and another channel was closed without ever being ready
C11_Witness ==
    /\ \E c \in 1..Len(cch) :
          /\ cch[c].closed
          /\ Count(cch[c].events, "state2") >= 1
          /\ cch[c].events[Len(cch[c].events)] = "close"
    /\ \E c \in 1..Len(cch) : cch[c].closed /\ ~EverReady(c)

\* the step closes channel c by an incoming CLOSE or by the link's closure
ClosedByPeer(c) ==
    /\ ~cch[c].closed /\ cch'[c].closed
    /\ toClient' # toClient \/ cliOpen' # cliOpen

\* C12: a channel closed by an incoming CLOSE(reason) or by link closure
\* fires error(reason) and then close(reason) if it had never been ready,
\* and close(reason) alone if it had been.
C12_ErrorIffNeverReady ==
    [][\A c \in 1..Len(cch) : ClosedByPeer(c) =>
          IF EverReady(c)
          THEN /\ cch'[c].events = Append(cch[c].events, "close")
               /\ cch'[c].errorReason = NoReason
          ELSE /\ cch'[c].events = cch[c].events \o <<"error", "close">>
               /\ cch'[c].errorReason = cch'[c].closeReason
               /\ cch'[c].closeReason # NoReason]_vars

\* the link closed a channel that was ready, with "close" alone, and a
\* channel that was pending, with "error" and "close"
C12_Witness ==
    /\ \E c \in 1..Len(cch) :
          /\ cch[c].closed /\ cch[c].closeReason = "lost" /\ EverReady(c)
          /\ Count(cch[c].events, "error") = 0
    /\ \E c \in 1..Len(cch) :
          /\ cch[c].closed /\ cch[c].closeReason = "lost" /\ ~EverReady(c)
          /\ cch[c].events = <<"error", "close">> /\ cch[c].errorReason = "lost"

\* the step is the expiry of the connection timeout
TimerExpires == timer = "timer" /\ timer' = "fired"

\* C13 as stated: when the timer expires and no STATE for the root channel
\* has arrived, the root channel becomes closed with reason "timeout" and
\* fires error("timeout") once and close("timeout") once.
C13_TimeoutFiresError ==
    [][(TimerExpires /\ ~EverReady(1)) =>
          /\ cch'[1].closed /\ cch'[1].closeReason = "timeout"
          /\ Count(cch'[1].events, "close") = 1
          /\ Count(cch'[1].events, "error") = 1
          /\ cch'[1].errorReason = "timeout"]_vars

\* C14: the timer or the abort listener is in place only while the root
\* channel has never been ready, so that its expiry finds the channel
\* pending or closed, never ready; an expiry that finds it closed changes
\* nothing and sends nothing.
C14_ExpiryOnlyWhilePending ==
    [][/\ EverReady(1)' => timer' \notin {"timer", "signal"}
       /\ (timer \in {"timer", "signal"} /\ timer' = "fired") =>
             /\ ~cch[1].ready /\ ~EverReady(1)
             /\ cch[1].closed => UNCHANGED <<cch, cchannels, toSource>>]_vars

\* the root channel became ready under a connectionTimeout, whose timer was
\* cleared, and is still ready and open
C14_Witness ==
    /\ timer = "cleared"
    /\ cch[1].ready /\ ~cch[1].closed
    /\ \A k \in 1..Len(toSource) : toSource[k].channelId # 1

\* ------------------------------------------------------- channel limit
\* the step initializes a channel for a request that arrived when the
\* registry was full: an initialize message, or a CREATE whose handler ends
ArrivedAtLimit ==
    IF tasks' = tasks THEN Len(channels) >= maxChannelsPerClient
    ELSE tasks[CHOOSE i \in 1..Len(tasks) : tasks' = RemoveAt(tasks, i)].full

\* the request is refused with "channels limit" and changes nothing else
RefusedAtLimit ==
    /\ channels' = channels
    /\ subscribers' = subscribers /\ listeners' = listeners
    /\ ~sch'[Len(sch')].ready
    /\ \A o \in 1..Len(sch) : sch'[o] = sch[o]
    /\ LinkOpen => AnsweredWithClose(AttemptedId, "channels limit")

\* C15 as stated: the registry never holds more than maxChannelsPerClient
\* entries, and an initialize or CREATE that arrived when it held
\* maxChannelsPerClient registers nothing and is answered "channels limit".
C15_LimitAtArrival ==
    [][/\ Len(channels') <= maxChannelsPerClient
       /\ (InitStep /\ ArrivedAtLimit) => RefusedAtLimit]_vars

\* C15: the registry never holds more than maxChannelsPerClient entries,
\* and a channel initialization performed when it holds maxChannelsPerClient
\* (on an initialize message, or when the handler of a CREATE has returned)
\* registers nothing, is answered with CLOSE("channels limit") on the
\* requested id and leaves the registered channels as they are.
C15_ChannelLimit ==
    [][/\ Len(channels') <= maxChannelsPerClient
       /\ (InitStep /\ Len(channels) >= maxChannelsPerClient) => RefusedAtLimit]_vars

\* the registry is full, its channels are ready, and a request was refused
\* with "channels limit"
C15_Witness ==
    /\ Len(channels) = maxChannelsPerClient
    /\ \A k \in 1..Len(channels) : sch[channels[k].obj].ready
    /\ \E o \in 1..Len(sch) : ~sch[o].inited /\ ~sch[o].closed /\ sch[o].channelId = 0
    /\ \E id \in Ids : firstSent[id].any = [action |-> REMOTE_ACTION_CLOSE, val |-> "channels limit"]

\* --------------------------------------------------- CREATE and its answer
\* the step is the end of the handler of CREATE task i
CreateEnds(i) ==
    /\ i \in 1..Len(tasks) /\ tasks[i].kind = "create"
    /\ tasks' = RemoveAt(tasks, i)

\* the messages of the step whose destinations include id
SentTo(id) == {k \in 1..Len(NewlySent) : NewlySent[k].arr /\ InSeq(id, NewlySent[k].ids)}

\* C16 as stated: when the handler of a CREATE ends, [newChannelId] is sent
\* exactly one message, the initial STATE of the channel now registered
\* under it or a CLOSE, and the parent channel stays open.
C16_CreateAnswered ==
    [][\A i \in 1..Len(tasks) : (CreateEnds(i) /\ LinkOpen) =>
          LET id == tasks[i].channelId
          IN /\ Cardinality(SentTo(id)) = 1
             /\ \A k \in SentTo(id) :
                   \/ NewlySent[k].action = REMOTE_ACTION_CLOSE
                   \/ /\ NewlySent[k].action = REMOTE_ACTION_STATE
                      /\ ChannelsGet(channels', id) # 0
                      /\ sch'[ChannelsGet(channels', id)].ready
             /\ sch'[tasks[i].obj].closed = sch[tasks[i].obj].closed]_vars

\* C19 as stated, below the channel limit: when the handler of a CREATE
\* returns a Source Channel that an earlier request initialized, the new id
\* is answered with CLOSE("channel is already initialized") and the Source
\* Channel, the registry and the subscriber lists stay as they are.
C19_InitializedOnce ==
    [][\A i \in 1..Len(tasks), obj \in 1..Len(sch) :
          (/\ CreateFinishChannel(i, obj) /\ sch[obj].inited
           /\ LinkOpen /\ Len(channels) < maxChannelsPerClient) =>
              /\ AnsweredWithClose(tasks[i].channelId, "channel is already initialized")
              /\ sch'[obj] = sch[obj]
              /\ channels' = channels /\ subscribers' = subscribers]_vars

\* ------------------------------------------------ handler exceptions on CALL
\* C17: when the handler of a CALL throws, the Source endpoint sends one
\* message, RESPONSE_ERROR with the call's response key and the thrown value
\* to the calling channel, and changes nothing else; when the client
\* dispatches a RESPONSE_ERROR, the pending call with that key rejects with
\* the value and the channel's ready, closed, state and events stay as
\* they are.
C17_CallErrorKeepsChannel ==
    [][/\ \A i \in 1..Len(tasks) : (CallFinish(i, FALSE) /\ LinkOpen) =>
             /\ Len(NewlySent) = 1
             /\ NewlySent[1].ids = <<tasks[i].channelId>>
             /\ NewlySent[1].action = REMOTE_ACTION_RESPONSE_ERROR
             /\ NewlySent[1].key = tasks[i].key
             /\ NewlySent[1].val = "error"
             /\ UNCHANGED <<sch, channels, subscribers, listeners, srcState, disposed>>
       /\ (Dispatching /\ Head(toClient).action = REMOTE_ACTION_RESPONSE_ERROR) =>
             \A c \in 1..Len(cch) :
                 /\ cch'[c].ready = cch[c].ready /\ cch'[c].closed = cch[c].closed
                 /\ cch'[c].state = cch[c].state /\ cch'[c].events = cch[c].events
                 /\ cchannels' = cchannels
                 /\ \A k \in 1..Len(cch[c].calls) :
                       (/\ Pending(cch[c].calls[k])
                        /\ cch[c].calls[k].id = Head(toClient).key
                        /\ cchannels[cch[c].channelId] = c
                        /\ InSeq(cch[c].channelId, Head(toClient).ids)) =>
                           /\ cch'[c].calls[k].st = "rejected"
                           /\ cch'[c].calls[k].val = Head(toClient).val]_vars

\* a call was rejected with the handler's error and the channel is still
\* ready and registered at both endpoints
C17_Witness ==
    /\ \E k \in 1..Len(cch[1].calls) :
          cch[1].calls[k].st = "rejected" /\ cch[1].calls[k].val = "error"
    /\ cch[1].ready /\ ~cch[1].closed /\ cchannels[1] = 1
    /\ ChannelsGet(channels, 1) # 0 /\ sch[ChannelsGet(channels, 1)].ready

\* ------------------------------------------------------------ path safety
\* null and the primitives are not objects
IsObject(target) == TypeOf(target) = "object" /\ target # "null"

\* the path is empty, contains a forbidden segment, steps through a
\* non-object, or names a property that is not an own enumerable key of
\* the target it is looked up in
RECURSIVE LeavesOwnKeys(_, _, _)
LeavesOwnKeys(target, path, i) ==
    IF i > Len(path) THEN FALSE
    ELSE \/ path[i] \in dangerPropNames
         \/ ~IsObject(target)
         \/ path[i] \notin ObjectKeys(target)
         \/ LeavesOwnKeys(GetProp(target, path[i]), path, i + 1)

UnsafePath(target, path) == path = <<>> \/ LeavesOwnKeys(target, path, 1)

\* C18 as stated, for a Source whose default handler is built without a
\* prefix: the handler of a CALL with an unsafe path applies no function and
\* answers with a RESPONSE_ERROR whose message contains "wrong path", and the
\* channel stays ready.
C18_PathSafety ==
    [][\A i \in 1..Len(tasks) :
          (/\ CallFinishDefault(i) /\ LinkOpen
           /\ prefix[sch[tasks[i].obj].source] = ""
           /\ UnsafePath(methods[sch[tasks[i].obj].source], tasks[i].path)) =>
              /\ Len(NewlySent) = 1
              /\ NewlySent[1].action = REMOTE_ACTION_RESPONSE_ERROR
              /\ NewlySent[1].key = tasks[i].key
              /\ NewlySent[1].val = "wrong path"
              /\ sch' = sch /\ channels' = channels]_vars

\* The number of "close" events an endpoint channel has fired
CloseEvents(c) == Cardinality({k \in 1..Len(cch[c].events) : cch[c].events[k] = "close"})

ClosesTo(id) ==
    {k \in 1..Len(NewlySent) : /\ NewlySent[k].action = REMOTE_ACTION_CLOSE
                               /\ NewlySent[k].arr
                               /\ InSeq(id, NewlySent[k].ids)}

\* C21: a disposed Source stays disposed with the reason of the first
\* dispose; a dispose call on a disposed Source sends nothing and changes
\* nothing; a dispose call on a Source that is not disposed sends at most
\* one CLOSE message to each channel id, and none to an id that is not
\* subscribed to the Source.
C21_DisposeIdempotent ==
    [][\A s \in Sources :
          /\ disposed[s] => disposed'[s] /\ disposeReason'[s] = disposeReason[s]
          /\ (disposed[s] /\ Dispose(s, "gone")) => UNCHANGED srcVars
          /\ (cliOpen /\ ~disposed[s] /\ Dispose(s, "gone")) =>
                /\ disposeReason'[s] = "gone"
                /\ \A id \in Ids :
                      Cardinality(ClosesTo(id)) <= IF id \in SubscribedIds(s) THEN 1 ELSE 0]_vars

\* A Source disposed with a reason other than the application's "gone" (by
\* the close of a channel of an auto-dispose Source), on which the
\* application has called dispose since
C21_Witness ==
    \E s \in Sources :
        /\ disposed[s] /\ disposeReason[s] \notin {"gone", NoReason}
        /\ used.srv > 0
        /\ \A o \in 1..Len(sch) : sch[o].closeReason # "srv"
        /\ \A s2 \in Sources \ {s} : ~disposed[s2]

\* the STATE messages a step hands to the transport
StatesSent == {k \in 1..Len(NewlySent) : NewlySent[k].action = REMOTE_ACTION_STATE}

\* C22: setState with the current value sends nothing and changes nothing on
\* the Source side; a step that changes the state of a Source bound to at
\* least one registered channel sends exactly one STATE message, carrying
\* the new value.
C22_SetStateNotifies ==
    [][\A s \in Sources :
          /\ (~disposed[s] /\ SetState(s, srcState[s])) => UNCHANGED srcVars
          /\ (cliOpen /\ srcState'[s] # srcState[s] /\ BoundIds(s) # {}) =>
                /\ Cardinality(StatesSent) = 1
                /\ \A k \in StatesSent : NewlySent[k].val = srcState'[s]]_vars

\* C23: setState and emit on a disposed Source throw "disposed", change
\* nothing on the Source side and hand no message to the transport.
C23_DisposedThrows ==
    [][\A s \in Sources :
          (disposed[s] /\ (Emit(s) \/ \E state \in States : SetState(s, state))) =>
              /\ used'.thrown = "disposed"
              /\ UNCHANGED srcVars]_vars

\* setState or emit has thrown "disposed" on a Source that the application
\* had disposed while a channel was subscribed to it
C23_Witness ==
    /\ used.thrown = "disposed"
    /\ \E c \in 1..Len(cch) : cch[c].closed /\ cch[c].closeReason = "gone"

\* the step closes the registered, ready Source Channel o alone: the client's
\* CLOSE for its id is dispatched, or the application calls o.close("srv")
ClosesChannel(o) ==
    /\ sch[o].ready /\ ChannelsGet(channels, sch[o].channelId) = o
    /\ \/ SrcClose /\ Head(toSource).channelId = sch[o].channelId
       \/ ChannelClose(o, "srv")

\* the reason such a step closes with
GivenReason == IF toSource' # toSource THEN Head(toSource).val ELSE "srv"

\* the Source Channel's close event has fired once, with the given reason
ClosedOnce(o) ==
    sch'[o].closed /\ sch'[o].closeEvents = 1 /\ sch'[o].closeReason = GivenReason

C25_ChannelEmitSingleRecipient ==
    [][\A obj \in 1..Len(sch) :
          ChannelEmit(obj) =>
              IF sch[obj].closed
              THEN used'.thrown = "closed" /\ UNCHANGED srcVars
              ELSE (cliOpen /\ sch[obj].channelId # 0 /\ ~sch[obj].inert) =>
                      /\ Len(NewlySent) = 1
                      /\ NewlySent[1].action = REMOTE_ACTION_EVENT
                      /\ NewlySent[1].arr
                      /\ NewlySent[1].ids = <<sch[obj].channelId>>]_vars

\* the last message handed to the transport is an EVENT for one channel
\* while another registered channel is subscribed to the same Source
C25_Witness ==
    /\ toClient # <<>>
    /\ LET m == toClient[Len(toClient)]
       IN /\ m.action = REMOTE_ACTION_EVENT /\ Len(m.ids) = 1
          /\ \E s \in Sources : \E other \in BoundIds(s) :
                /\ m.ids[1] \in BoundIds(s) /\ m.ids[1] \in SubscribedIds(s)
                /\ other # m.ids[1] /\ other \in SubscribedIds(s)

\* emit has thrown "closed" on a Source Channel
C25_ThrownClosed == used.thrown = "closed"

\* the listener was registered for a built-in event: on the root proxy,
\* under the bare name ready, error, close or state
BuiltInListener(h) == h.path = <<>> /\ ~h.e.arr /\ h.e.segs[1] \in BuiltInNames

\* the custom-event path a listener was registered for
ListenerPath(h) == h.path \o h.e.segs

\* C26: a listener an EVENT message invokes is no built-in listener and was
\* registered for exactly the message's path; a listener a STATE or CLOSE
\* message invokes is a built-in listener; the dispatch of an EVENT leaves
\* every channel's state, ready and closed values as they were.
C26_NoCollision ==
    [][/\ \A c \in 1..Len(cch) : \A r \in cch'[c].invoked :
            IF r.by = "EVENT"
            THEN ~BuiltInListener(r.h) /\ ListenerPath(r.h) = EventPaths[r.ev]
            ELSE BuiltInListener(r.h)
       /\ (ClientOnMessage /\ Head(toClient).action = REMOTE_ACTION_EVENT) =>
             \A c \in 1..Len(cch) :
                 /\ cch'[c].state = cch[c].state
                 /\ cch'[c].ready = cch[c].ready
                 /\ cch'[c].closed = cch[c].closed]_vars

\* the channel has a built-in state listener and a listener of the custom
\* event ["state"]; a STATE message has invoked the one and an EVENT
\* message with the path ["state"] the other
C26_Witness ==
    \E r1, r2 \in cch[1].invoked :
        /\ r1.by = "STATE" /\ r1.h.key = "state"
        /\ r2.by = "EVENT" /\ r2.ev = "p_state" /\ r2.h.e = EventName(TRUE, <<"state">>)

\* C27: a closed Source Channel has fired its close event exactly once, and
\* its error event exactly when it had never been ready.
C27_SourceErrorIffNeverReady ==
    \A obj \in 1..Len(sch) :
        sch[obj].closed =>
            /\ sch[obj].closeEvents = 1
            /\ sch[obj].errorEvents = IF sch[obj].inited THEN 0 ELSE 1

\* the STATE messages channel c has dispatched
StatesDispatched(c) == Count(cch[c].events, "state1") + Count(cch[c].events, "state2")

\* C28: a channel is ready exactly when it has dispatched a STATE and is not
\* closed (so never ready and closed); right after a STATE is dispatched to
\* a registered channel its state is the message's value; a closed channel
\* stays closed, never becomes ready and keeps its state.
C28_ReplicaInvariant ==
    [][/\ \A c \in 1..Len(cch) :
            /\ cch[c].ready <=> (StatesDispatched(c) >= 1 /\ ~cch[c].closed)
            /\ cch[c].closed =>
                  /\ cch'[c].closed /\ ~cch'[c].ready
                  /\ cch'[c].state = cch[c].state
       /\ (ClientOnMessage /\ Head(toClient).arr /\ Head(toClient).action = REMOTE_ACTION_STATE) =>
             \A id \in Ids :
                 (InSeq(id, Head(toClient).ids) /\ cchannels[id] # 0) =>
                     /\ cch'[cchannels[id]].state = Head(toClient).val
                     /\ cch'[cchannels[id]].ready]_vars

\* a channel that was ready is closed, and the next message to be
\* dispatched is a STATE for its id with another value
C28_Witness ==
    \E c \in 1..Len(cch) :
        /\ cch[c].closed /\ StatesDispatched(c) >= 1
        /\ cliOpen /\ toClient # <<>>
        /\ Head(toClient).action = REMOTE_ACTION_STATE
        /\ InSeq(cch[c].channelId, Head(toClient).ids)
        /\ Head(toClient).val # cch[c].state

\* the registered channel ids bound to Source s, in the registry's order
BoundList(s) ==
    LET bound == SelectSeq(channels, LAMBDA e : sch[e.obj].source = s)
    IN [k \in 1..Len(bound) |-> bound[k].id]

\* C29: the Subscriber Map has an entry for a Source exactly when the
\* registry holds a channel bound to it, and the entry's list is the list of
\* the registered channel ids bound to the Source.
C29_SubscriberMap ==
    \A s \in Sources :
        /\ subscribers[s].has <=> BoundIds(s) # {}
        /\ subscribers[s].has => subscribers[s].list = BoundList(s)

\* C30: the message, state and dispose listeners of the link are attached
\* to a Source exactly once while the registry holds a channel bound to it
\* and not at all otherwise.
C30_ListenerBookkeeping ==
    \A s \in Sources :
        Len(listeners[s]) = IF BoundIds(s) # {} THEN 1 ELSE 0

\* the case of C30 in which a listener stays attached without subscribers
C30_NoListenerWithoutSubscriber ==
    \A s \in Sources : BoundIds(s) = {} => listeners[s] = <<>>

\* C31: when the handler of a CALL completes, by returning or by throwing,
\* on a Source Channel that has been closed meanwhile, no message is handed
\* to the transport.
C31_NoResponseAfterClose ==
    [][\A i \in 1..Len(tasks) :
          (/\ cliOpen /\ tasks[i].kind = "call" /\ sch[tasks[i].obj].closed
           /\ \E ok \in BOOLEAN : CallFinish(i, ok)) => toClient' = toClient]_vars

\* C32: a Source Channel is never both ready and closed, a closed Source
\* Channel is not in the channel registry and its id is on no subscriber
\* list unless a later channel of the same Source holds the id.
C32_Lifecycle ==
    \A o \in 1..Len(sch) :
        /\ ~(sch[o].ready /\ sch[o].closed)
        /\ sch[o].closed =>
              /\ \A k \in 1..Len(channels) : channels[k].obj # o
              /\ (sch[o].channelId \in SubscribedIds(sch[o].source)) =>
                    \E p \in 1..Len(sch) : /\ p # o /\ ~sch[p].closed
                                           /\ sch[p].source = sch[o].source
                                           /\ sch[p].channelId = sch[o].channelId

\* C32: a closed Source Channel stays closed and does not become ready
C32_Monotonic ==
    [][\A o \in 1..Len(sch) :
          /\ sch[o].closed => sch'[o].closed /\ ~sch'[o].ready
          /\ (sch[o].ready /\ ~sch'[o].ready) => sch'[o].closed]_vars

\* C33: a step that disposes a Source leaves every Source Channel that was
\* ready on it closed and not ready, with one more close event and the
\* dispose reason as its close reason.
C33_DisposeClosesChannels ==
    [][\A s \in Sources :
          (~disposed[s] /\ Dispose(s, "gone")) =>
              \A o \in 1..Len(sch) :
                  (sch[o].source = s /\ sch[o].ready) =>
                      /\ sch'[o].closed /\ ~sch'[o].ready
                      /\ sch'[o].closeEvents = sch[o].closeEvents + 1
                      /\ sch'[o].closeReason = "gone"]_vars

\* C34: every message the Source endpoint hands to the transport has an
\* array of channel ids as its first element.
C34_DestinationIsArray ==
    \A k \in 1..Len(toClient) : toClient[k].arr

\* C34: a message for an unknown channel starts no handler and is answered
\* with CLOSE "wrong channel" to that channel id, and a CREATE is answered
\* with a second CLOSE "wrong channel" naming the new channel id.
C34_WrongChannelAnswered ==
    [][(cliOpen /\ SrcWrongChannel) =>
          LET m == Head(toSource)
          IN /\ tasks' = tasks
             /\ Len(NewlySent) = IF m.action = CLIENT_ACTION_CREATE THEN 2 ELSE 1
             /\ NewlySent[1].arr /\ NewlySent[1].ids = <<m.channelId>>
             /\ NewlySent[1].action = REMOTE_ACTION_CLOSE /\ NewlySent[1].val = "wrong channel"
             /\ m.action = CLIENT_ACTION_CREATE =>
                   /\ NewlySent[2].ids = <<m.key>>
                   /\ NewlySent[2].action = REMOTE_ACTION_CLOSE
                   /\ NewlySent[2].val = "wrong channel"]_vars

\* C35: in the step in which the transport's terminal close fires on the
\* Source endpoint, and in every later step, no message is handed to the
\* transport's send function, and an endpoint that has closed stays closed
\* with nothing left to dispatch.
C35_InertAfterClose ==
    [][~srcOpen' => /\ Len(toClient') <= Len(toClient)
                    /\ toSource' = <<>>]_vars

\* C36: when a Source is bound to two registered, ready Source Channels and
\* the later of them is closed by the client or by the server, the Source
\* is not disposed and the earlier channel stays registered and ready.
C36_AutoDisposePerChannel ==
    [][\A o \in 1..Len(sch), p \in 1..Len(sch) :
          (/\ p < o /\ sch[p].source = sch[o].source /\ ~disposed[sch[o].source]
           /\ sch[p].ready /\ ChannelsGet(channels, sch[p].channelId) = p
           /\ sch[p].channelId # sch[o].channelId
           /\ ClosesChannel(o)) =>
              /\ ~disposed'[sch[o].source]
              /\ ChannelsGet(channels', sch[p].channelId) = p
              /\ sch'[p].ready
              /\ \A k \in 1..Len(NewlySent) : ~InSeq(sch[p].channelId, NewlySent[k].ids)]_vars

\* C37: an error thrown by the transport's send function never escapes the
\* Source endpoint.
C37_SendFailureContained ==
    used.thrown # "send failed"

\* C37: a close() of a registered, ready Source Channel during which send
\* throws leaves the channel closed and unregistered and disposes its Source
\* if the Source is auto-dispose.
C37_CloseBookkeeping ==
    [][\A o \in 1..Len(sch) :
          (/\ sch[o].ready /\ ChannelsGet(channels, sch[o].channelId) = o
           /\ \/ ChannelCloseSendThrows(o, "srv")
              \/ SrcCloseSendThrows /\ Head(toSource).channelId = sch[o].channelId) =>
              /\ sch'[o].closed
              /\ \A k \in 1..Len(channels') : channels'[k].obj # o
              /\ autoDispose[sch[o].source] => disposed'[sch[o].source]]_vars

\* C37: closeAll during which send throws closes every registered channel
C37_CloseAllCompletes ==
    [][SourceOnCloseSendThrows("lost") =>
          \A k \in 1..Len(channels) : sch'[channels[k].obj].closed]_vars

\* C38: every message a setState, emit or dispose of Source s hands to the
\* transport has a non-empty destination list holding exactly the ids of
\* the registered channels bound to s, each once.
C38_BroadcastDestinations ==
    [][\A s \in Sources :
          (/\ cliOpen /\ ~disposed[s]
           /\ \/ \E state \in States : SetState(s, state)
              \/ Emit(s)
              \/ Dispose(s, "gone")) =>
              \A k \in 1..Len(NewlySent) :
                  LET ids == NewlySent[k].ids
                  IN /\ ids # <<>>
                     /\ {ids[j] : j \in 1..Len(ids)} = BoundIds(s)
                     /\ \A id \in BoundIds(s) : Count(ids, id) = 1]_vars

\* C39: whenever the link is open at both endpoints with nothing in flight
\* and no handler pending, every channel id registered on the Source
\* endpoint is registered on the Channel endpoint.
C39_RegistryAgreement ==
    (Quiescent /\ srcOpen /\ cliOpen) =>
        \A id \in Ids : ChannelsGet(channels, id) # 0 => cchannels[id] # 0

\* C40: the first message handed to the adapter for a channel initialized
\* during start is its initial STATE.
C40_QueuedStateFirst ==
    \A o \in 1..Len(sch) :
        sch[o].queued => firstSent[sch[o].channelId].any =
                            [action |-> REMOTE_ACTION_STATE, val |-> sch[o].initState]

\* C40: while a channel initialized during start is registered and ready,
\* a state change of its Source hands a STATE for its id to the adapter, an
\* emit of the Source or of the channel an EVENT, and its close a CLOSE.
C40_EarlyChannelServed ==
    [][\A o \in 1..Len(sch) :
          (/\ cliOpen /\ sch[o].queued /\ sch[o].ready
           /\ ChannelsGet(channels, sch[o].channelId) = o) =>
              LET sent(action) == \E k \in 1..Len(NewlySent) :
                                     /\ NewlySent[k].action = action
                                     /\ InSeq(sch[o].channelId, NewlySent[k].ids)
              IN /\ (\E state \in States : state # srcState[sch[o].source]
                                            /\ SetState(sch[o].source, state))
                       => sent(REMOTE_ACTION_STATE)
                 /\ (Emit(sch[o].source) \/ ChannelEmit(o)) => sent(REMOTE_ACTION_EVENT)
                 /\ ChannelClose(o, "srv") => sent(REMOTE_ACTION_CLOSE)]_vars

\* C40: a CALL on a channel initialized during start is answered through
\* the adapter's send function.
C40_ResponsesSent ==
    [][\A i \in 1..Len(tasks) :
          (/\ cliOpen /\ srcOpen /\ tasks[i].kind = "call" /\ sch[tasks[i].obj].queued
           /\ ~sch[tasks[i].obj].closed
           /\ \E ok \in BOOLEAN : CallFinish(i, ok)) =>
              /\ Len(NewlySent) = 1
              /\ IsResponse(NewlySent[1])
              /\ NewlySent[1].ids = <<tasks[i].channelId>>]_vars

====
